---- MODULE Spec2Model ----
(***************************************************************************)
(* The account-locking reconciliation engine of LineAdmin-Backend:         *)
(* services/lockCheckService.js (the evaluator checkUserLockStatus and the *)
(* reconciler updateUserLockedDates) together with the routes of           *)
(* routes/stats.js that write the same data (/increment, /update-deposit,  *)
(* /lock-account).                                                         *)
(*                                                                         *)
(* A JavaScript Date is modelled by its instant, in SECONDS since the      *)
(* epoch (the code compares milliseconds; every instant of the model is a  *)
(* whole second).  The host's timezone is a fixed offset (no DST):         *)
(* hostOffset is the value of Date.prototype.getTimezoneOffset(), in       *)
(* minutes.  Every await of the code is one step of the model.             *)
(***************************************************************************)
EXTENDS Integers, Sequences, FiniteSets, TLC

VARIABLES
  clock,       \* the real instant (new Date().getTime()), seconds
  hostOffset,  \* now.getTimezoneOffset() of the host, minutes
  stats,       \* DailyStats collection of the account: date instant -> record
  user,        \* the persisted account: [lockedDates, activeDates]
  pc,          \* position of each evaluate-then-reconcile pass
  loc,         \* the local variables of each pass
  lockReq,     \* the POST /lock-account request in flight
  depReq,      \* the PUT /update-deposit requests in flight
  wanted,      \* history: what the last pass's failed save would have stored,
               \* and whether that pass's evaluator had met a store error
  settled,     \* history: "clean" or "failed" when the last thing that happened
               \* was a pass ending without or with a store error, else "no"
  acct,        \* the account that stats and user are the documents of
  others,      \* the documents of the other accounts: id -> [stats, user]
  sweep,       \* the locals of checkAllUsersLockStatus
  chk,         \* the GET /check-lock request in flight
  pinned,      \* history: the days POST /lock-account pushed while they had
               \* no record or a record without activity
  users,       \* the User collection: id -> role, of the users that exist
  delReq,      \* the DELETE /api/users/:id requests in flight
  profile,     \* the scalar fields of the account's User document
  reqs         \* the requests in flight on those fields: PUT /update-deposit
               \* with its response, POST /login, POST /users/:id/reset-hwid,
               \* POST /heartbeat and sendStatus

callerVars == <<acct, others, sweep, chk, pinned, users, delReq, profile, reqs>>

vars == <<clock, hostOffset, stats, user, pc, loc, lockReq, depReq, settled, wanted,
          acct, others, sweep, chk, pinned, users, delReq, profile, reqs>>

----------------------------------------------------------------------------
(* Bounds of the model *)

NumProcs == 2
MaxDay == 8
MaxRecords == 2
MaxLocked == 2
MaxRequestDay == 1
NumAccounts == 2
NumDepositRequests == 2
NumUsers == 3
NumDeleteRequests == 2
NumLoginRequests == 2

Procs == 1..NumProcs
Accounts == 1..NumAccounts
DepositRequests == 1..NumDepositRequests
UserIds == 1..NumUsers
DeleteRequests == 1..NumDeleteRequests

----------------------------------------------------------------------------
(* Time and calendar: getBangkokTime and the Date arithmetic the code uses *)

SecondsPerDay == 86400
SecondsPerHour == 3600

\* lockCheckService.js:9  const bangkokOffset = 7 * 60
bangkokOffset == 420

\* Host timezones tried: a host in Bangkok (-420), a host in New York (300).
HostOffsets == {0 - 420, 300}

\* Date#getFullYear/getMonth/getDate/getHours...: the wall clock the host shows
\* for instant x, as seconds since the local epoch.
LocalWall(x) == x - hostOffset * 60

\* new Date(y, m, d, h, mi, s): the instant at which the host's wall clock shows w.
FromLocalWall(w) == w + hostOffset * 60

StartOfDayUtc(x) == x - (x % SecondsPerDay)

\* new Date(x.getFullYear(), x.getMonth(), x.getDate(), 0, 0, 0, 0) and
\* x.setHours(0, 0, 0, 0): local midnight of x's local calendar day.
StartOfDay(x) == FromLocalWall(LocalWall(x) - (LocalWall(x) % SecondsPerDay))

\* d.setDate(d.getDate() + n)
AddDays(x, n) == x + n * SecondsPerDay

\* d.setHours(h, 0, 0, 0)
SetHours(x, h) == StartOfDay(x) + h * SecondsPerHour

\* d.toISOString().split('T')[0]: the UTC calendar day of instant x (its number).
IsoDate(x) == x \div SecondsPerDay

\* new Date(parseInt(parts[0]), parseInt(parts[1]) - 1, parseInt(parts[2]), 0,0,0,0)
\* for the date string naming calendar day k.
ParseDate(k) == FromLocalWall(k * SecondsPerDay)

getBangkokTimeSignSlip(now) == now + (bangkokOffset - hostOffset) * 60

\* lockCheckService.js:7-12
getBangkokTime(now) == now + (bangkokOffset + hostOffset) * 60

\* The business (UTC+7) wall clock at real instant c, independent of the host:
\* its calendar day number and its second of the day.
BusinessDay(c) == (c + bangkokOffset * 60) \div SecondsPerDay
BusinessTod(c) == (c + bangkokOffset * 60) % SecondsPerDay
ClockAt(k, t) == k * SecondsPerDay + t - bangkokOffset * 60

\* Seconds of the business day the clock may stop at: 00:00:00, 11:59:59,
\* 12:00:00, 12:00:01, 22:59:00, 23:00:00, 23:59:59.
TodPoints == {0, 43199, 43200, 43201, 82740, 82800, 86399}

----------------------------------------------------------------------------
(* Records *)

Null == <<>>
Some(v) == <<v>>

\* undefined: a field the request body does not carry.
Undefined == <<0, 0>>
IsNumber(v) == Len(v) = 1

IncTypes == {"registration"}
IncCounts == {1}
DepositCounts == {Some(0)}
DepositAmounts == {Some(0)}

\* What the body of a PUT /update-deposit may carry in depositCount and in
\* depositAmount: nothing, null, -1, 0, 1.
BodyValues == {Undefined, Null, Some(0 - 1), Some(0), Some(1)}

Range(s) == {s[i] : i \in 1..Len(s)}

SelectSeqBy(s, keep) ==
  LET F[i \in 0..Len(s)] ==
        IF i = 0 THEN <<>>
        ELSE IF s[i] \in keep THEN Append(F[i - 1], s[i]) ELSE F[i - 1]
  IN F[Len(s)]

\* Array#map(d => { date = new Date(d); date.setHours(0,0,0,0); return date })
Normalize(s) == [i \in 1..Len(s) |-> StartOfDay(s[i])]

\* A record as the upsert of incrementStats creates it: counters at 0, the
\* deposit fields null.
NewRecord ==
  [registrationsCount |-> 0, friendsAddedCount |-> 0, groupsCreatedCount |-> 0,
   messagesSentCount |-> 0, depositCount |-> Null, depositAmount |-> Null]

HasRecord(d) == d \in DOMAIN stats

\* lockCheckService.js:17-22
hasActivity(r) ==
  \/ r.registrationsCount > 0
  \/ r.friendsAddedCount > 0
  \/ r.groupsCreatedCount > 0
  \/ r.messagesSentCount > 0

hasDepositDataTruthy(r) ==
  r.depositCount \notin {Null, Some(0)} /\ r.depositAmount \notin {Null, Some(0)}

\* lockCheckService.js:27-31, on a record that was found
hasDepositData(r) == r.depositCount # Null /\ r.depositAmount # Null

----------------------------------------------------------------------------
(* The evaluator: checkUserLockStatus, lockCheckService.js:37-101 *)

\* for (let i = 6; i >= 0; i--): how many days before today the window starts
WindowNine == 6 + 2
WindowBack == 6

datesToCheckShort(today) ==
  [j \in 1..WindowBack |-> AddDays(today, 0 - (WindowBack - j))]

\* lockCheckService.js:42-47, oldest first
datesToCheck(today) ==
  [j \in 1..(WindowBack + 1) |-> AddDays(today, 0 - (WindowBack - (j - 1)))]

isPastDeadlineStrict(bangkokNow, checkDate) ==
  bangkokNow > SetHours(AddDays(checkDate, 1), 12)

\* lockCheckService.js:84-88
isPastDeadline(bangkokNow, checkDate) ==
  bangkokNow >= SetHours(AddDays(checkDate, 1), 12)

isSubmittableStrict(bangkokNow, checkDate) == bangkokNow > SetHours(checkDate, 23)

\* lockCheckService.js:73-74, 81
isSubmittable(bangkokNow, checkDate) == bangkokNow >= SetHours(checkDate, 23)

\* lockCheckService.js:76-82
ActiveEntry(bangkokNow, checkDate) ==
  [date |-> IsoDate(checkDate), hasActivity |-> TRUE, hasDeposit |-> FALSE,
   canSubmitAt |-> SetHours(checkDate, 23),
   isSubmittable |-> isSubmittable(bangkokNow, checkDate)]

\* One iteration of the loop of lockCheckService.js:53-94 on the record found
\* (found = FALSE: findOne returned null).
CheckOneDayNoActivityTest(l, checkDate, latestDate, found, s) ==
  IF ~found THEN l
  ELSE IF hasDepositData(s) THEN l
  ELSE IF checkDate = latestDate
    THEN [l EXCEPT !.activeDates = Append(@, ActiveEntry(l.bangkokNow, checkDate))]
  ELSE IF isPastDeadline(l.bangkokNow, checkDate)
    THEN [l EXCEPT !.lockedDates = Append(@, checkDate)]
  ELSE l

CheckOneDay(l, checkDate, latestDate, found, s) ==
  IF ~found THEN l
  ELSE IF ~hasActivity(s) \/ hasDepositData(s) THEN l
  ELSE IF checkDate = latestDate
    THEN [l EXCEPT !.activeDates = Append(@, ActiveEntry(l.bangkokNow, checkDate))]
  ELSE IF isPastDeadline(l.bangkokNow, checkDate)
    THEN [l EXCEPT !.lockedDates = Append(@, checkDate)]
  ELSE l

----------------------------------------------------------------------------
(* State *)

\* The locals of a pass.  startedAt (the instant the clock was read),
\* depositedAtStart (the days whose record had a full deposit then), failed (a
\* store error was caught), evalFailed (the evaluator caught it), failedAt
\* (the await of the reconciler that threw), saves (the calls of user.save()),
\* saved (user.save() succeeded) and afterSettled (settled when the pass
\* began) are history, read by no action.
IdleLoc ==
  [bangkokNow |-> 0, i |-> 0, lockedDates |-> <<>>, activeDates |-> <<>>,
   doc |-> [lockedDates |-> <<>>, activeDates |-> <<>>], fresh |-> TRUE,
   k |-> 0, datesToRemove |-> <<>>, logs |-> {},
   startedAt |-> 0, depositedAtStart |-> {}, failed |-> FALSE,
   evalFailed |-> FALSE, failedAt |-> "", saves |-> 0, saved |-> FALSE,
   afterSettled |-> "no"]

IdleLock == [pc |-> "idle", date |-> 0]
IdleDep == [pc |-> "idle", date |-> 0, depositCount |-> Null, depositAmount |-> Null]

\* checkAllUsersLockStatus, lockCheckService.js:208-210.  found (what User.find
\* returned), processed (the accounts whose reconciler returned), erred (those
\* of them whose pass met a store error) and aborted (the catch of line 223
\* ran) are history.
IdleSweep ==
  [pc |-> "idle", users |-> <<>>, totalChecked |-> 0, totalLocked |-> 0,
   found |-> <<>>, processed |-> <<>>, erred |-> {}, aborted |-> FALSE]

\* GET /check-lock, stats.js:427-491: the date of the query (Null: none) and
\* the response (status 0: none yet).  erred (a store error occurred while
\* the request was served) is history.
NoBody ==
  [isLocked |-> FALSE, lockedDates |-> <<>>, activeDates |-> <<>>,
   lockedDate |-> Null, hasDepositData |-> Undefined]

IdleChk ==
  [pc |-> "idle", date |-> Null, isLocked |-> FALSE, status |-> 0,
   body |-> NoBody, erred |-> FALSE]

\* DELETE /api/users/:id, users.js:226-261: the id of the path and the
\* response status (0: none yet).
NoWrite ==
  [set |-> FALSE, evalFailed |-> FALSE,
   user |-> [lockedDates |-> <<>>, activeDates |-> <<>>]]

IdleDel == [pc |-> "idle", id |-> 0, status |-> 0]

\* Every account is a user of role User (models/User.js:26-30, the default).
PlainUsers ==
  /\ users = [u \in UserIds |-> "User"]
  /\ delReq = [r \in DeleteRequests |-> IdleDel]

\* The scalar fields of a User document nobody has logged into: hwid,
\* lastLoginAt and lastLoginIP default to null (models/User.js:33-44); ""
\* stands for null in hwid.  The presence fields and lastDepositUpdateAt are
\* those the routes write.
NoHwid == ""

NewProfile ==
  [hwid |-> NoHwid, lastLoginAt |-> Null, lastLoginIP |-> Null,
   lastDepositUpdateAt |-> Null,
   lastHeartbeatAt |-> Null, onlineSince |-> Null, heartbeatCount |-> 0,
   lastHeartbeatCount |-> 0]

\* No request in flight on the account's scalar fields.
\* put (PUT /update-deposit): the body, the position, the response status
\* (0: none yet) and the instant of new Date() at stats.js:331.
\* login (POST /login): the body, foundUser as findOne returned it and as the
\* handler changed it, whether the handler assigned foundUser.hwid, the
\* response status.
\* reset (POST /users/:id/reset-hwid): whether user.hwid = null changed the
\* document findById returned, the response status.
\* beat (POST /heartbeat): now, the document findById returned, the response
\* status.
\* status (sendStatus): the heartbeatCount of the account as User.find
\* returned it, while the update of status.js:52-56 is on its way.
\* lock (history of POST /lock-account): the date of the latest request and
\* whether it saved; the date of the request before it and lockedDates as
\* that one left them, when nothing but time, /increment and /update-deposit
\* came between the two.
IdleReqs ==
  [put |-> [pc |-> "idle", status |-> 0, stamp |-> Null,
            body |-> [username |-> Null, date |-> Null,
                      depositCount |-> Undefined, depositAmount |-> Undefined,
                      clientType |-> "", hwid |-> NoHwid]],
   login |-> [r \in 1..NumLoginRequests |->
                [pc |-> "idle", foundUser |-> NewProfile,
                 hwidModified |-> FALSE, status |-> 0,
                 body |-> [user |-> Null, password |-> "", hwid |-> NoHwid]]],
   reset |-> [pc |-> "idle", hwidModified |-> FALSE, status |-> 0],
   beat |-> [pc |-> "idle", now |-> 0, user |-> NewProfile, status |-> 0],
   status |-> [pc |-> "idle", heartbeatCount |-> 0],
   lock |-> [date |-> Null, saved |-> FALSE, prior |-> Null, list |-> <<>>]]

EmptyAccount == [stats |-> <<>>, user |-> [lockedDates |-> <<>>, activeDates |-> <<>>]]

IdleCallers ==
  /\ acct = 1
  /\ others = [a \in Accounts \ {1} |-> EmptyAccount]
  /\ sweep = IdleSweep
  /\ chk = IdleChk
  /\ PlainUsers

Init ==
  /\ clock = ClockAt(0, 0)
  /\ hostOffset \in HostOffsets
  /\ stats = <<>>
  /\ user = [lockedDates |-> <<>>, activeDates |-> <<>>]
  /\ pc = [p \in Procs |-> "idle"]
  /\ loc = [p \in Procs |-> IdleLoc]
  /\ lockReq = IdleLock
  /\ depReq = [r \in DepositRequests |-> IdleDep]
  /\ settled = "no"
  /\ wanted = NoWrite
  /\ pinned = {}
  /\ profile = NewProfile
  /\ reqs = IdleReqs
  /\ IdleCallers

----------------------------------------------------------------------------
(* One evaluate-then-reconcile pass (checkAllUsersLockStatus's loop body,    *)
(* lockCheckService.js:213-214, and GET /check-lock, stats.js:440-441)       *)

\* mongoose versioning: a save that pushes to or sets an array increments the
\* document's __v; every document loaded before it is stale from then on.
Invalidate(f, writer) ==
  [q \in Procs |-> IF q # writer /\ pc[q] \in {"lookup", "save"}
                   THEN [f[q] EXCEPT !.fresh = FALSE] ELSE f[q]]

\* The days a request may name; activity is recorded on these days only, so
\* a findOne for any other day finds no record whenever it runs.
RequestDays == 0..MaxRequestDay
MayHaveRecord(checkDate) == \E k \in RequestDays : checkDate = ParseDate(k)

\* The iterations from..to of the loop of lockCheckService.js:53-94, each on
\* the record its findOne returns from the collection as it is now.
RECURSIVE RunLoop(_, _, _, _)
RunLoop(l, dates, from, to) ==
  IF from > to THEN l
  ELSE LET checkDate == dates[from]
           found == HasRecord(checkDate)
       IN RunLoop(CheckOneDay(l, checkDate, dates[Len(dates)], found,
                              IF found THEN stats[checkDate] ELSE NewRecord),
                  dates, from + 1, to)

\* The first iteration at or after `from` whose findOne may find a record;
\* Len(dates) + 1 when there is none.
NextRead(dates, from) ==
  LET js == {j \in from..Len(dates) : MayHaveRecord(dates[j])}
  IN IF js = {} THEN Len(dates) + 1 ELSE CHOOSE j \in js : \A x \in js : j <= x

\* The evaluator runs on from iteration `from`: the iterations whose findOne
\* cannot find a record are taken at once; it stops before the next one that
\* can (a step of its own), or returns (the reconciler's own first await,
\* User.findById, comes next).
EvalOn(l, from) ==
  LET dates == datesToCheck(StartOfDay(l.bangkokNow))
      stop == NextRead(dates, from)
  IN [pc |-> IF stop > Len(dates) THEN "load" ELSE "eval",
      l |-> [RunLoop(l, dates, from, stop - 1) EXCEPT !.i = stop]]

\* lockCheckService.js:39-51: the clock is read, the window is built.
StartPass(p) ==
  /\ pc[p] = "idle"
  /\ LET nxt == EvalOn([IdleLoc EXCEPT !.bangkokNow = getBangkokTime(clock),
                                       !.startedAt = clock,
                                       !.depositedAtStart =
                                         {d \in DOMAIN stats :
                                            /\ stats[d].depositCount # Null
                                            /\ stats[d].depositAmount # Null},
                                       !.afterSettled = settled], 1)
     IN /\ pc' = [pc EXCEPT ![p] = nxt.pc]
        /\ loc' = [loc EXCEPT ![p] = nxt.l]
  /\ UNCHANGED <<clock, hostOffset, stats, user, lockReq, depReq>>

\* lockCheckService.js:53-94: one DailyStats.findOne resolves and that day
\* is classified.
EvalStep(p) ==
  /\ pc[p] = "eval"
  /\ LET l == loc[p]
         dates == datesToCheck(StartOfDay(l.bangkokNow))
         nxt == EvalOn(RunLoop(l, dates, l.i, l.i), l.i + 1)
     IN /\ loc' = [loc EXCEPT ![p] = nxt.l]
        /\ pc' = [pc EXCEPT ![p] = nxt.pc]
  /\ UNCHANGED <<clock, hostOffset, stats, user, lockReq, depReq>>

EvalFailKeepsPartial(p) ==
  /\ pc[p] = "eval"
  /\ loc' = [loc EXCEPT ![p] = [@ EXCEPT !.i = WindowBack + 2, !.failed = TRUE,
                                         !.evalFailed = TRUE]]
  /\ pc' = [pc EXCEPT ![p] = "load"]
  /\ UNCHANGED <<clock, hostOffset, stats, user, lockReq, depReq>>

\* lockCheckService.js:97-100: a findOne of the evaluator throws; the catch
\* returns empty lists and the reconciler is called with them.
EvalFail(p) ==
  /\ pc[p] = "eval"
  /\ loc' = [loc EXCEPT ![p] = [@ EXCEPT !.lockedDates = <<>>, !.activeDates = <<>>,
                                         !.i = WindowBack + 2, !.failed = TRUE,
                                         !.evalFailed = TRUE]]
  /\ pc' = [pc EXCEPT ![p] = "load"]
  /\ UNCHANGED <<clock, hostOffset, stats, user, lockReq, depReq>>

\* lockCheckService.js:124-128
normalizedNewDates(l) == Normalize(l.lockedDates)
\* lockCheckService.js:130-134
normalizedExistingDates(l) == Normalize(l.doc.lockedDates)

datesToAddAll(l) == normalizedNewDates(l)

\* lockCheckService.js:136-140
datesToAdd(l) ==
  SelectSeqBy(normalizedNewDates(l),
              Range(normalizedNewDates(l)) \ Range(normalizedExistingDates(l)))

\* lockCheckService.js:144-148: !shouldBeLocked
NeedsLookup(l, j) == normalizedExistingDates(l)[j] \notin Range(normalizedNewDates(l))

\* The next index of the loop of lockCheckService.js:143 at or after `from`
\* whose iteration awaits a findOne; 0 when the loop ends without one.
NextLookup(l, from) ==
  LET js == {j \in from..Len(l.doc.lockedDates) : NeedsLookup(l, j)}
  IN IF js = {} THEN 0 ELSE CHOOSE j \in js : \A x \in js : j <= x

activeDatesChangedWhenAny(l) ==
  l.activeDates # <<>> /\ l.doc.activeDates # l.activeDates

\* lockCheckService.js:185: JSON.stringify of the persisted list against that
\* of the computed one; the persisted entries serialise as they were computed.
activeDatesChanged(l) == l.doc.activeDates # l.activeDates

hasChangesLockedOnly(l) == datesToAdd(l) # <<>> \/ l.datesToRemove # <<>>

\* lockCheckService.js:162, 187, 193
hasChanges(l) ==
  \/ datesToAdd(l) # <<>>
  \/ l.datesToRemove # <<>>
  \/ activeDatesChanged(l)

\* lockCheckService.js:177-191: the log lines, written before the save
LogLines(l) ==
  {x \in {"added"} : datesToAdd(l) # <<>>}
    \cup {x \in {"removed"} : l.datesToRemove # <<>>}
    \cup {x \in {"active"} : activeDatesChanged(l)}

FilterKeepsAll(l, dates) == dates

\* lockCheckService.js:163-169: user.lockedDates.filter(...)
FilterRemoved(l, dates) ==
  LET F[i \in 0..Len(dates)] ==
        IF i = 0 THEN <<>>
        ELSE IF StartOfDay(dates[i]) \in Range(l.datesToRemove)
          THEN F[i - 1] ELSE Append(F[i - 1], dates[i])
  IN F[Len(dates)]

\* The synchronous rest of the loop of lockCheckService.js:143-158 and of
\* lines 160-193 once no further findOne is awaited from index `from` on:
\* the position the pass is in next.
AfterLookup(l, from) ==
  IF NextLookup(l, from) # 0
    THEN [pc |-> "lookup", l |-> [l EXCEPT !.k = NextLookup(l, from)]]
  ELSE IF hasChanges(l)
    THEN [pc |-> "save", l |-> [l EXCEPT !.k = 0, !.logs = LogLines(l)]]
  ELSE [pc |-> "done", l |-> [l EXCEPT !.k = 0]]

LoadAnyway(p) ==
  /\ pc[p] = "load"
  /\ LET l == [loc[p] EXCEPT !.doc = user, !.fresh = TRUE]
         nxt == AfterLookup(l, 1)
     IN /\ loc' = [loc EXCEPT ![p] = nxt.l]
        /\ pc' = [pc EXCEPT ![p] = nxt.pc]
  /\ UNCHANGED <<clock, hostOffset, stats, user, lockReq, depReq>>

\* lockCheckService.js:108-140: User.findById resolves with the account.
Load(p) ==
  /\ pc[p] = "load"
  /\ acct \in DOMAIN users
  /\ LET l == [loc[p] EXCEPT !.doc = user, !.fresh = TRUE]
         nxt == AfterLookup(l, 1)
     IN /\ loc' = [loc EXCEPT ![p] = nxt.l]
        /\ pc' = [pc EXCEPT ![p] = nxt.pc]
  /\ UNCHANGED <<clock, hostOffset, stats, user, lockReq, depReq>>

\* lockCheckService.js:108-111: User.findById resolves with null, the account
\* does not exist; the function returns.
LoadMissing(p) ==
  /\ pc[p] = "load"
  /\ acct \notin DOMAIN users
  /\ pc' = [pc EXCEPT ![p] = "done"]
  /\ UNCHANGED <<clock, hostOffset, stats, user, loc, lockReq, depReq>>

\* lockCheckService.js:196-198: User.findById throws.
LoadFail(p) ==
  /\ pc[p] = "load"
  /\ loc' = [loc EXCEPT ![p] = [@ EXCEPT !.failed = TRUE, !.failedAt = "load"]]
  /\ pc' = [pc EXCEPT ![p] = "done"]
  /\ UNCHANGED <<clock, hostOffset, stats, user, lockReq, depReq>>

RemoveWithoutDeposit(found, s) == TRUE

ShouldRemoveWhenMissing(found, s) == ~found \/ hasDepositData(s)

\* lockCheckService.js:154  if (stats && hasDepositData(stats))
ShouldRemove(found, s) == found /\ hasDepositData(s)

\* lockCheckService.js:149-157: the findOne of a persisted day that the
\* evaluator did not return.
Lookup(p) ==
  /\ pc[p] = "lookup"
  /\ LET l == loc[p]
         existingDate == normalizedExistingDates(l)[l.k]
         found == HasRecord(existingDate)
         l2 == IF ShouldRemove(found, IF found THEN stats[existingDate] ELSE NewRecord)
                 THEN [l EXCEPT !.datesToRemove = Append(@, existingDate)]
                 ELSE l
         nxt == AfterLookup(l2, l.k + 1)
     IN /\ loc' = [loc EXCEPT ![p] = nxt.l]
        /\ pc' = [pc EXCEPT ![p] = nxt.pc]
  /\ UNCHANGED <<clock, hostOffset, stats, user, lockReq, depReq>>

LookupThrows(p) ==
  /\ pc[p] = "lookup"
  /\ loc' = [loc EXCEPT ![p] = [@ EXCEPT !.failed = TRUE, !.failedAt = "lookup"]]
  /\ pc' = [pc EXCEPT ![p] = "thrown"]
  /\ UNCHANGED <<clock, hostOffset, stats, user, lockReq, depReq>>

\* lockCheckService.js:196-198: that findOne throws.
LookupFail(p) ==
  /\ pc[p] = "lookup"
  /\ loc' = [loc EXCEPT ![p] = [@ EXCEPT !.failed = TRUE, !.failedAt = "lookup"]]
  /\ pc' = [pc EXCEPT ![p] = "done"]
  /\ UNCHANGED <<clock, hostOffset, stats, user, lockReq, depReq>>

\* lockCheckService.js:160-193: the document user.save() stores, from the
\* locals l of the pass.
Written(l) ==
  [lockedDates |->
     IF l.datesToRemove # <<>>
       THEN FilterRemoved(l, l.doc.lockedDates) \o datesToAdd(l)
       ELSE user.lockedDates \o datesToAdd(l),
   activeDates |->
     IF activeDatesChanged(l) THEN l.activeDates ELSE user.activeDates]

\* lockCheckService.js:163-173, 188, 194: user.save().  mongoose sends what
\* was modified: an array that was assigned a different value as a $set of
\* the whole array, guarded by the version the document was loaded with (a
\* stale document fails with a VersionError, caught at line 196); an array
\* that was only pushed to as a $push onto the stored array, unguarded.
Save(p) ==
  /\ pc[p] = "save"
  /\ LET l == loc[p]
         setLocked == l.datesToRemove # <<>>
         setActive == activeDatesChanged(l)
     IN IF acct \notin DOMAIN users \/ ((setLocked \/ setActive) /\ ~l.fresh)
          THEN /\ loc' = [loc EXCEPT ![p] = [l EXCEPT !.failed = TRUE,
                                                        !.failedAt = "save",
                                                        !.saves = @ + 1]]
               /\ UNCHANGED user
          ELSE /\ user' = Written(l)
               /\ loc' = [Invalidate(loc, p) EXCEPT ![p] = [l EXCEPT !.saved = TRUE,
                                                                     !.saves = @ + 1]]
  /\ pc' = [pc EXCEPT ![p] = "done"]
  /\ UNCHANGED <<clock, hostOffset, stats, lockReq, depReq>>

SaveFailHalfWritten(p) ==
  /\ pc[p] = "save"
  /\ loc' = [loc EXCEPT ![p] = [@ EXCEPT !.failed = TRUE, !.failedAt = "save",
                                         !.saves = @ + 1]]
  /\ user' = [user EXCEPT !.lockedDates = Written(loc[p]).lockedDates]
  /\ pc' = [pc EXCEPT ![p] = "done"]
  /\ UNCHANGED <<clock, hostOffset, stats, lockReq, depReq>>

\* lockCheckService.js:196-198: user.save() throws (the store is unreachable).
SaveFail(p) ==
  /\ pc[p] = "save"
  /\ loc' = [loc EXCEPT ![p] = [@ EXCEPT !.failed = TRUE, !.failedAt = "save",
                                         !.saves = @ + 1]]
  /\ pc' = [pc EXCEPT ![p] = "done"]
  /\ UNCHANGED <<clock, hostOffset, stats, user, lockReq, depReq>>

\* updateUserLockedDates returns; the pass is over.
Finish(p) ==
  /\ pc[p] = "done"
  /\ pc' = [pc EXCEPT ![p] = "idle"]
  /\ loc' = [loc EXCEPT ![p] = IdleLoc]
  /\ UNCHANGED <<clock, hostOffset, stats, user, lockReq, depReq>>

----------------------------------------------------------------------------
(* The routes that write the same data *)

MaxCount == 1

\* DailyStats.incrementStats (the model's statics) and POST /increment,
\* stats.js:40-92: an upsert of today's record with $inc of one counter.
Increment(type, count) ==
  LET bangkokTime == clock + (bangkokOffset + hostOffset) * 60
      today == StartOfDay(bangkokTime)
      old == IF HasRecord(today) THEN stats[today] ELSE NewRecord
      new == CASE type = "registration" ->
                    [old EXCEPT !.registrationsCount = @ + count]
               [] type = "friend" -> [old EXCEPT !.friendsAddedCount = @ + count]
               [] type = "group" -> [old EXCEPT !.groupsCreatedCount = @ + count]
               [] type = "message" -> [old EXCEPT !.messagesSentCount = @ + count]
  IN /\ BusinessDay(clock) <= MaxRequestDay
     /\ HasRecord(today) \/ Cardinality(DOMAIN stats) < MaxRecords
     /\ new.registrationsCount <= MaxCount /\ new.friendsAddedCount <= MaxCount
     /\ new.groupsCreatedCount <= MaxCount /\ new.messagesSentCount <= MaxCount
     /\ new.registrationsCount >= 0 - MaxCount /\ new.friendsAddedCount >= 0 - MaxCount
     /\ new.groupsCreatedCount >= 0 - MaxCount /\ new.messagesSentCount >= 0 - MaxCount
     /\ stats' = [d \in DOMAIN stats \cup {today} |-> IF d = today THEN new ELSE stats[d]]
        /\ UNCHANGED <<clock, hostOffset, user, pc, loc, lockReq, depReq>>

ValidDepositCountOnly(depositCount, depositAmount) ==
  /\ depositCount # Undefined
  /\ IsNumber(depositCount) /\ depositCount[1] >= 0

\* stats.js:252, 266, 273: both fields are there, depositCount is a
\* non-negative integer and depositAmount a non-negative number.
ValidDeposit(depositCount, depositAmount) ==
  /\ depositCount # Undefined /\ depositAmount # Undefined
  /\ IsNumber(depositCount) /\ depositCount[1] >= 0
  /\ IsNumber(depositAmount) /\ depositAmount[1] >= 0

\* PUT /update-deposit, stats.js:247-325: the body is validated, then the
\* request against the record read by findOne; a rejected request (status
\* 400) changes nothing.
DepositLoad(r, k, depositCount, depositAmount) ==
  /\ depReq[r].pc = "idle"
  /\ LET targetDate == ParseDate(k)
     IN IF /\ ValidDeposit(depositCount, depositAmount)
           /\ HasRecord(targetDate)
           /\ hasActivity(stats[targetDate])
           /\ ~(stats[targetDate].depositCount # Null
                  \/ stats[targetDate].depositAmount # Null)
          THEN depReq' = [depReq EXCEPT ![r] =
                            [pc |-> "save", date |-> targetDate,
                             depositCount |-> depositCount,
                             depositAmount |-> depositAmount]]
          ELSE UNCHANGED depReq
  /\ UNCHANGED <<clock, hostOffset, stats, user, pc, loc, lockReq>>

\* stats.js:327-332: existingStats.save() writes the two modified fields.  The
\* user.save() that follows writes lastDepositUpdateAt alone, a field no pass
\* reads, and touches no array of the account.
DepositSave(r) ==
  /\ depReq[r].pc = "save"
  /\ stats' = [stats EXCEPT ![depReq[r].date] =
                 [@ EXCEPT !.depositCount = depReq[r].depositCount,
                           !.depositAmount = depReq[r].depositAmount]]
  /\ depReq' = [depReq EXCEPT ![r] = IdleDep]
  /\ UNCHANGED <<clock, hostOffset, user, pc, loc, lockReq>>

\* stats.js:340-346: existingStats.save() throws; the catch answers 500.
DepositSaveFail(r) ==
  /\ depReq[r].pc = "save"
  /\ depReq' = [depReq EXCEPT ![r] = IdleDep]
  /\ UNCHANGED <<clock, hostOffset, stats, user, pc, loc, lockReq>>

\* POST /lock-account, stats.js:349-380: the account is read and the date
\* compared with the entries of lockedDates as they are.
LockAccountAlwaysPushes(k) ==
  /\ lockReq.pc = "idle"
  /\ Len(user.lockedDates) < MaxLocked
  /\ lockReq' = [pc |-> "save", date |-> ParseDate(k)]
  /\ UNCHANGED <<clock, hostOffset, stats, user, pc, loc, depReq>>

LockAccount(k) ==
  /\ lockReq.pc = "idle"
  /\ LET lockDate == ParseDate(k)
         isAlreadyLocked == \E i \in 1..Len(user.lockedDates) :
                               user.lockedDates[i] = lockDate
     IN IF isAlreadyLocked
          THEN UNCHANGED lockReq
          ELSE /\ Len(user.lockedDates) < MaxLocked
               /\ lockReq' = [pc |-> "save", date |-> lockDate]
  /\ UNCHANGED <<clock, hostOffset, stats, user, pc, loc, depReq>>

\* stats.js:381-382: user.lockedDates.push(lockDate); user.save() is a $push.
LockSave ==
  /\ lockReq.pc = "save"
  /\ user' = [user EXCEPT !.lockedDates = Append(@, lockReq.date)]
  /\ loc' = Invalidate(loc, 0)
  /\ lockReq' = IdleLock
  /\ UNCHANGED <<clock, hostOffset, stats, pc, depReq>>

\* Time passes: the clock moves on to a later instant, one whose second of
\* the business day is in tods.
Tick(tods) ==
  /\ \E k \in 0..MaxDay, t \in tods :
       /\ ClockAt(k, t) > clock
       /\ clock' = ClockAt(k, t)
  /\ UNCHANGED <<hostOffset, stats, user, pc, loc, lockReq, depReq>>

----------------------------------------------------------------------------
(* Specifications *)

Quiescent ==
  /\ \A p \in Procs : pc[p] = "idle"
  /\ lockReq.pc = "idle"
  /\ \A r \in DepositRequests : depReq[r].pc = "idle"

PassStep(p) ==
  \/ EvalStep(p)
  \/ EvalFail(p)
  \/ Load(p)
  \/ LoadFail(p)
  \/ Lookup(p)
  \/ LookupFail(p)
  \/ Save(p)
  \/ SaveFail(p)

IncrementRequest == \E type \in IncTypes, count \in IncCounts : Increment(type, count)

DepositRequest ==
  \E k \in RequestDays, c \in DepositCounts, a \in DepositAmounts :
    DepositLoad(1, k, c, a)

LockRequest == \E k \in RequestDays : LockAccount(k)

\* Something other than a pass happened: the history starts over.
Forget == settled' = "no" /\ wanted' = NoWrite

\* One handler at a time: a pass or a request starts only when nothing is in
\* flight, and the clock stands still while one runs.
NextSerial ==
  \/ Quiescent /\ StartPass(1) /\ UNCHANGED <<settled, wanted>> /\ UNCHANGED callerVars
  \/ Quiescent /\ IncrementRequest /\ Forget /\ UNCHANGED callerVars
  \/ Quiescent /\ DepositRequest /\ Forget /\ UNCHANGED callerVars
  \/ Quiescent /\ LockRequest /\ Forget /\ UNCHANGED callerVars
  \/ Quiescent /\ Tick(TodPoints) /\ Forget /\ UNCHANGED callerVars
  \/ PassStep(1) /\ UNCHANGED settled /\ UNCHANGED callerVars
       /\ wanted' = (IF pc[1] = "save" /\ loc'[1].failedAt = "save"
                       THEN [set |-> TRUE, evalFailed |-> loc[1].evalFailed,
                             user |-> Written(loc[1])]
                       ELSE wanted)
  \/ Finish(1) /\ settled' = (IF loc[1].failed THEN "failed" ELSE "clean")
       /\ wanted' = (IF loc[1].failed THEN wanted ELSE NoWrite)
       /\ UNCHANGED callerVars
  \/ DepositSave(1) /\ Forget /\ UNCHANGED callerVars
  \/ LockSave /\ Forget /\ UNCHANGED callerVars

SpecSerial == Init /\ [][NextSerial]_vars

\* The program as it runs: passes (the sweep of the one-minute cron, the sweep
\* of the startup timer, GET /check-lock) and requests interleave at every
\* await.  It is observed from noon of business day 1 on, after a day on
\* which activity may have been recorded, and then again a week later; no
\* further activity is recorded meanwhile.
InitRunning ==
  /\ clock = ClockAt(1, 43200)
  /\ hostOffset = 0
  /\ stats \in {<<>>,
                [d \in {ParseDate(0)} |-> [NewRecord EXCEPT !.registrationsCount = 1]]}
  /\ user = [lockedDates |-> <<>>, activeDates |-> <<>>]
  /\ pc = [p \in Procs |-> "idle"]
  /\ loc = [p \in Procs |-> IdleLoc]
  /\ lockReq = IdleLock
  /\ depReq = [r \in DepositRequests |-> IdleDep]
  /\ settled = "no"
  /\ wanted = NoWrite
  /\ pinned = {}
  /\ profile = NewProfile
  /\ reqs = IdleReqs
  /\ IdleCallers

WeekLater ==
  /\ BusinessDay(clock) + 7 <= MaxDay
  /\ clock' = AddDays(clock, 7)
  /\ UNCHANGED <<hostOffset, stats, user, pc, loc, lockReq, depReq>>

Next ==
  \/ \E p \in Procs : StartPass(p) /\ UNCHANGED <<settled, wanted, callerVars>>
  \/ \E p \in Procs : PassStep(p) /\ UNCHANGED <<settled, wanted, callerVars>>
  \/ \E p \in Procs : Finish(p) /\ UNCHANGED <<settled, wanted, callerVars>>
  \/ DepositRequest /\ UNCHANGED <<settled, wanted, callerVars>>
  \/ LockRequest /\ UNCHANGED <<settled, wanted, callerVars>>
  \/ DepositSave(1) /\ UNCHANGED <<settled, wanted, callerVars>>
  \/ LockSave /\ UNCHANGED <<settled, wanted, callerVars>>
  \/ WeekLater /\ UNCHANGED <<settled, wanted, callerVars>>

Spec == InitRunning /\ [][Next]_vars

----------------------------------------------------------------------------
(* The sweep: checkAllUsersLockStatus, lockCheckService.js:204-226 *)

\* States an account can be in at noon of business day 1 or 8: no record and
\* nothing locked; activity on day 0 without deposit, not locked yet; the same
\* locked; day 0 locked and its deposit recorded since; day 0 locked by
\* /lock-account without a record; activity today.
AccountStates ==
  LET day0 == ParseDate(0)
      active == [NewRecord EXCEPT !.registrationsCount = 1]
      paid == [active EXCEPT !.depositCount = Some(0), !.depositAmount = Some(0)]
      none == [lockedDates |-> <<>>, activeDates |-> <<>>]
      locked == [lockedDates |-> <<day0>>, activeDates |-> <<>>]
  IN {EmptyAccount,
      [stats |-> [d \in {day0} |-> active], user |-> none],
      [stats |-> [d \in {day0} |-> active], user |-> locked],
      [stats |-> [d \in {day0} |-> paid], user |-> locked],
      [stats |-> <<>>, user |-> locked],
      [stats |-> [d \in {StartOfDay(getBangkokTime(clock))} |-> active], user |-> none]}

\* The persisted documents of account a.
AccountDoc(a) == IF a = acct THEN [stats |-> stats, user |-> user] ELSE others[a]

InitSweep ==
  /\ clock \in {ClockAt(1, 43200), ClockAt(MaxDay, 43200)}
  /\ hostOffset = 0
  /\ acct = 1
  /\ \E d \in AccountStates : stats = d.stats /\ user = d.user
  /\ others \in [Accounts \ {1} -> AccountStates]
  /\ pc = [p \in Procs |-> "idle"]
  /\ loc = [p \in Procs |-> IdleLoc]
  /\ lockReq = IdleLock
  /\ depReq = [r \in DepositRequests |-> IdleDep]
  /\ settled = "no"
  /\ wanted = NoWrite
  /\ pinned = {}
  /\ profile = NewProfile
  /\ reqs = IdleReqs
  /\ sweep = IdleSweep
  /\ chk = IdleChk
  /\ PlainUsers

\* lockCheckService.js:206-208: a sweep begins (the cron of server.js:79-81
\* fires, or the startup timer of 84-87) and awaits User.find({}).
SweepStart ==
  /\ sweep.pc \in {"idle", "done"}
  /\ sweep' = [IdleSweep EXCEPT !.pc = "find"]
  /\ UNCHANGED <<clock, hostOffset, stats, user, pc, loc, lockReq, depReq,
                 settled, wanted, pinned, acct, others, chk, users, delReq, profile, reqs>>

\* lockCheckService.js:208-210: User.find resolves with every account.
SweepFind ==
  /\ sweep.pc = "find"
  /\ sweep' = [sweep EXCEPT !.pc = "loop",
                            !.users = [i \in 1..NumAccounts |-> i],
                            !.found = [i \in 1..NumAccounts |-> i]]
  /\ UNCHANGED <<clock, hostOffset, stats, user, pc, loc, lockReq, depReq,
                 settled, wanted, pinned, acct, others, chk, users, delReq, profile, reqs>>

\* lockCheckService.js:223-225: the catch of the sweep, reached when User.find
\* throws or when a call of the loop body throws; the sweep is over.
SweepCatch ==
  /\ sweep.pc = "find" \/ (sweep.pc = "pass" /\ pc[1] = "thrown")
  /\ sweep' = [sweep EXCEPT !.pc = "done", !.aborted = TRUE]
  /\ pc' = [pc EXCEPT ![1] = "idle"]
  /\ loc' = [loc EXCEPT ![1] = IdleLoc]
  /\ UNCHANGED <<clock, hostOffset, stats, user, lockReq, depReq,
                 settled, wanted, pinned, acct, others, chk, users, delReq, profile, reqs>>

\* lockCheckService.js:212: the loop takes the next account; from here on
\* stats and user are its documents.
SweepTake ==
  /\ sweep.pc = "loop" /\ sweep.users # <<>>
  /\ LET a == Head(sweep.users)
     IN /\ acct' = a
        /\ stats' = AccountDoc(a).stats
        /\ user' = AccountDoc(a).user
        /\ others' = [b \in Accounts \ {a} |-> AccountDoc(b)]
  /\ sweep' = [sweep EXCEPT !.pc = "call"]
  /\ UNCHANGED <<clock, hostOffset, pc, loc, lockReq, depReq, settled, wanted, pinned, chk,
                 users, delReq, profile, reqs>>

\* lockCheckService.js:213: checkUserLockStatus(user._id) is called.
SweepCall ==
  /\ sweep.pc = "call"
  /\ StartPass(1)
  /\ sweep' = [sweep EXCEPT !.pc = "pass"]
  /\ UNCHANGED <<settled, wanted, pinned, acct, others, chk, users, delReq, profile, reqs>>

\* lockCheckService.js:213-214: the awaits of the evaluator and of the
\* reconciler, one at a time.
SweepPass ==
  /\ sweep.pc = "pass"
  /\ PassStep(1)
  /\ UNCHANGED <<settled, wanted, pinned, acct, others, sweep, chk, users, delReq, profile, reqs>>

\* lockCheckService.js:214-219: updateUserLockedDates has returned; the
\* account is tallied from the evaluator's result.
SweepTally ==
  /\ sweep.pc = "pass"
  /\ Finish(1)
  /\ sweep' = [sweep EXCEPT
                 !.pc = "loop",
                 !.users = Tail(@),
                 !.totalChecked = @ + 1,
                 !.totalLocked = IF Len(loc[1].lockedDates) > 0 THEN @ + 1 ELSE @,
                 !.processed = Append(@, acct),
                 !.erred = IF loc[1].failed THEN @ \cup {acct} ELSE @]
  /\ UNCHANGED <<settled, wanted, pinned, acct, others, chk, users, delReq, profile, reqs>>

\* lockCheckService.js:222: the loop is over, the tallies are logged.
SweepEnd ==
  /\ sweep.pc = "loop" /\ sweep.users = <<>>
  /\ sweep' = [sweep EXCEPT !.pc = "done"]
  /\ UNCHANGED <<clock, hostOffset, stats, user, pc, loc, lockReq, depReq,
                 settled, wanted, pinned, acct, others, chk, users, delReq, profile, reqs>>

NextSweep ==
  \/ SweepStart
  \/ SweepFind
  \/ SweepCatch
  \/ SweepTake
  \/ SweepCall
  \/ SweepPass
  \/ SweepTally
  \/ SweepEnd

\* One sweep after another, nothing else running.  Every await of the sweep
\* settles: the step that follows it is eventually taken.
SpecSweep == InitSweep /\ [][NextSweep]_vars /\ WF_vars(NextSweep)

----------------------------------------------------------------------------
(* GET /check-lock, stats.js:427-491 *)

InitOnDemand ==
  /\ clock \in {ClockAt(1, 43200), ClockAt(MaxDay, 43200)}
  /\ hostOffset \in HostOffsets
  /\ acct = 1
  /\ \E d \in AccountStates : stats = d.stats /\ user = d.user
  /\ others = [a \in Accounts \ {1} |-> EmptyAccount]
  /\ pc = [p \in Procs |-> "idle"]
  /\ loc = [p \in Procs |-> IdleLoc]
  /\ lockReq = IdleLock
  /\ depReq = [r \in DepositRequests |-> IdleDep]
  /\ settled = "no"
  /\ wanted = NoWrite
  /\ pinned = {}
  /\ profile = NewProfile
  /\ reqs = IdleReqs
  /\ sweep = IdleSweep
  /\ chk = IdleChk
  /\ PlainUsers

\* stats.js:427-432: a request arrives, with or without a date, and awaits
\* User.findById.
CheckLockStart(date) ==
  /\ chk.pc \in {"idle", "done"}
  /\ chk' = [IdleChk EXCEPT !.pc = "load", !.date = date]
  /\ UNCHANGED <<clock, hostOffset, stats, user, pc, loc, lockReq, depReq,
                 settled, wanted, pinned, acct, others, sweep, users, delReq, profile, reqs>>

\* stats.js:432-440: the account is found; checkUserLockStatus is called.
CheckLockCall ==
  /\ chk.pc = "load"
  /\ StartPass(1)
  /\ chk' = [chk EXCEPT !.pc = "pass"]
  /\ UNCHANGED <<settled, wanted, pinned, acct, others, sweep, users, delReq, profile, reqs>>

\* stats.js:440-441: the awaits of the evaluator and of the reconciler.
CheckLockPass ==
  /\ chk.pc = "pass"
  /\ PassStep(1)
  /\ UNCHANGED <<settled, wanted, pinned, acct, others, sweep, chk, users, delReq, profile, reqs>>

\* stats.js:441-443: updateUserLockedDates has returned; the account is read
\* again.
CheckLockReturn ==
  /\ chk.pc = "pass"
  /\ Finish(1)
  /\ chk' = [chk EXCEPT !.pc = "reload", !.erred = loc[1].failed]
  /\ UNCHANGED <<settled, wanted, pinned, acct, others, sweep, users, delReq, profile, reqs>>

\* stats.js:443-463: the reload resolves.  Without a date the lists are
\* sent; with one, isLocked is computed and the day's record is awaited.
CheckLockReload ==
  /\ chk.pc = "reload"
  /\ LET normalizedLockedDates == Normalize(user.lockedDates)
     IN IF chk.date = Null
          THEN chk' = [chk EXCEPT
                         !.pc = "done", !.status = 200,
                         !.body = [NoBody EXCEPT
                            !.isLocked = Len(normalizedLockedDates) > 0,
                            !.lockedDates = [i \in 1..Len(normalizedLockedDates) |->
                                               IsoDate(normalizedLockedDates[i])],
                            !.activeDates = user.activeDates]]
          ELSE chk' = [chk EXCEPT
                         !.pc = "stats",
                         !.isLocked = \E i \in 1..Len(normalizedLockedDates) :
                                         normalizedLockedDates[i] = ParseDate(chk.date[1])]
  /\ UNCHANGED <<clock, hostOffset, stats, user, pc, loc, lockReq, depReq,
                 settled, wanted, pinned, acct, others, sweep, users, delReq, profile, reqs>>

finalIsLockedIgnoresDeposit(isLocked, hasDeposit) == isLocked

\* stats.js:474: isLocked && !hasDepositData, where hasDepositData is null
\* for a day without record.
finalIsLocked(isLocked, hasDeposit) == isLocked /\ hasDeposit # Some(TRUE)

\* stats.js:465-482: the day's record is read and the answer sent.
CheckLockStats ==
  /\ chk.pc = "stats"
  /\ LET checkDate == ParseDate(chk.date[1])
         hasDeposit == IF HasRecord(checkDate)
                         THEN Some(/\ stats[checkDate].depositCount # Null
                                   /\ stats[checkDate].depositAmount # Null)
                         ELSE Null
     IN chk' = [chk EXCEPT
                  !.pc = "done", !.status = 200,
                  !.body = [NoBody EXCEPT
                              !.isLocked = finalIsLocked(chk.isLocked, hasDeposit),
                              !.lockedDate = Some(IsoDate(checkDate)),
                              !.hasDepositData = hasDeposit]]
  /\ UNCHANGED <<clock, hostOffset, stats, user, pc, loc, lockReq, depReq,
                 settled, wanted, pinned, acct, others, sweep, users, delReq, profile, reqs>>

\* stats.js:484-490: one of the route's own awaits (the account load, the
\* reload, the record lookup) throws; the catch answers 500.
CheckLockFail ==
  /\ chk.pc \in {"load", "reload", "stats"}
  /\ chk' = [chk EXCEPT !.pc = "done", !.status = 500, !.erred = TRUE]
  /\ UNCHANGED <<clock, hostOffset, stats, user, pc, loc, lockReq, depReq,
                 settled, wanted, pinned, acct, others, sweep, users, delReq, profile, reqs>>

NextOnDemand ==
  \/ \E date \in {Null} \cup {Some(k) : k \in RequestDays} : CheckLockStart(date)
  \/ CheckLockCall
  \/ CheckLockPass
  \/ CheckLockReturn
  \/ CheckLockReload
  \/ CheckLockStats
  \/ CheckLockFail

\* One GET /check-lock request after another, nothing else running.
SpecOnDemand == InitOnDemand /\ [][NextOnDemand]_vars

----------------------------------------------------------------------------
(* The requests that write the records *)

\* POST /increment and PUT /update-deposit requests of one account, the
\* latter overlapping at their awaits, with every kind of body; days pass.
NextDeposit ==
  \/ IncrementRequest /\ UNCHANGED <<settled, wanted, callerVars>>
  \/ /\ \E r \in DepositRequests, k \in RequestDays, c \in BodyValues, a \in BodyValues :
          DepositLoad(r, k, c, a)
     /\ UNCHANGED <<settled, wanted, callerVars>>
  \/ (\E r \in DepositRequests : DepositSave(r)) /\ UNCHANGED <<settled, wanted, callerVars>>
  \/ (\E r \in DepositRequests : DepositSaveFail(r)) /\ UNCHANGED <<settled, wanted, callerVars>>
  \/ Tick({0}) /\ UNCHANGED <<settled, wanted, callerVars>>

SpecDeposit == Init /\ [][NextDeposit]_vars

----------------------------------------------------------------------------
(* POST /increment with the count of the request body (stats.js:40-92), on  *)
(* records of either schema                                                  *)

\* What the body may carry as type (validated at stats.js:50) and as count.
BodyTypes == {"registration", "friend"}
BodyCounts == {0 - 1, 0, 1}

\* stats.js:76: count || 1
countOrOne(count) == IF count = 0 THEN 1 ELSE count

\* stats.js:73-77: incrementStats is called with the body's type and count.
IncrementBody == \E type \in BodyTypes, count \in BodyCounts : Increment(type, countOrOne(count))

\* A stored record of day 0: created by the upsert of a schema with deposit
\* fields (both null, or both set by /update-deposit), or by the upsert of
\* the schema of part_000:3-35, which has no deposit fields.
StoredRecords ==
  {[NewRecord EXCEPT !.registrationsCount = c,
                     !.depositCount = d, !.depositAmount = d] :
     c \in {0, 1}, d \in {Null, Some(0), Undefined}}

AllZero(r) ==
  /\ r.registrationsCount = 0 /\ r.friendsAddedCount = 0
  /\ r.groupsCreatedCount = 0 /\ r.messagesSentCount = 0

InitRecords ==
  /\ clock = ClockAt(1, 43200)
  /\ hostOffset \in HostOffsets
  /\ stats \in {<<>>} \cup {[d \in {ParseDate(0)} |-> r] : r \in StoredRecords}
  /\ user = [lockedDates |-> <<>>, activeDates |-> <<>>]
  /\ pc = [p \in Procs |-> "idle"]
  /\ loc = [p \in Procs |-> IdleLoc]
  /\ lockReq = IdleLock
  /\ depReq = [r \in DepositRequests |-> IdleDep]
  /\ settled = "no"
  /\ wanted = NoWrite
  /\ pinned = {}
  /\ profile = NewProfile
  /\ reqs = IdleReqs
  /\ IdleCallers

\* One handler at a time: /increment, /update-deposit, /lock-account and
\* passes, at noon of one day and of later days.
NextRecords ==
  \/ Quiescent /\ IncrementBody /\ UNCHANGED <<settled, wanted, callerVars>>
  \/ Quiescent /\ DepositRequest /\ UNCHANGED <<settled, wanted, callerVars>>
  \/ DepositSave(1) /\ UNCHANGED <<settled, wanted, callerVars>>
  \/ Quiescent /\ LockRequest /\ UNCHANGED <<settled, wanted, callerVars>>
  \/ /\ LockSave
     /\ pinned' = (IF ~HasRecord(lockReq.date) \/ AllZero(stats[lockReq.date])
                     THEN pinned \cup {lockReq.date} ELSE pinned)
     /\ UNCHANGED <<settled, wanted, acct, others, sweep, chk, users, delReq, profile, reqs>>
  \/ Quiescent /\ Tick({43200}) /\ UNCHANGED <<settled, wanted, callerVars>>
  \/ Quiescent /\ StartPass(1) /\ UNCHANGED <<settled, wanted, callerVars>>
  \/ PassStep(1) /\ UNCHANGED <<settled, wanted, callerVars>>
  \/ Finish(1) /\ UNCHANGED <<settled, wanted, callerVars>>

SpecRecords == InitRecords /\ [][NextRecords]_vars

----------------------------------------------------------------------------
(* The older variant of the service (lockCheckService.js:235-445): it       *)
(* returns and stores locked days only.  Its helpers getBangkokTime,        *)
(* hasActivity and hasDepositData (lines 240-266) are those of lines 7-31.  *)

OlderCheckIgnoresDeposit(lockedDates, bangkokNow, checkDate, found, s) ==
  IF found /\ isPastDeadline(bangkokNow, checkDate) /\ hasActivity(s)
    THEN Append(lockedDates, checkDate)
    ELSE lockedDates

\* lockCheckService.js:287-308: one iteration of the loop over the window.
OlderCheck(lockedDates, bangkokNow, checkDate, found, s) ==
  IF found /\ isPastDeadline(bangkokNow, checkDate)
           /\ hasActivity(s) /\ ~hasDepositData(s)
    THEN Append(lockedDates, checkDate)
    ELSE lockedDates

RECURSIVE OlderLoop(_, _, _, _)
OlderLoop(lockedDates, bangkokNow, dates, from) ==
  IF from > Len(dates) THEN lockedDates
  ELSE LET checkDate == dates[from]
           found == HasRecord(checkDate)
       IN OlderLoop(OlderCheck(lockedDates, bangkokNow, checkDate, found,
                               IF found THEN stats[checkDate] ELSE NewRecord),
                    bangkokNow, dates, from + 1)

\* lockCheckService.js:271-322: the older checkUserLockStatus on the records
\* as they are, the clock having been read as bangkokNow.
pastDatesLocked(bangkokNow) ==
  LET dates == datesToCheck(StartOfDay(bangkokNow))
      latestDate == dates[Len(dates)]
      lockedDates == OlderLoop(<<>>, bangkokNow, dates, 1)
  IN SelectSeqBy(lockedDates, Range(lockedDates) \ {latestDate})

\* lockCheckService.js:332-412: the lockedDates the older
\* updateUserLockedDates leaves stored for the loaded account doc and the
\* evaluator's newLockedDates, on the records as they are.
OlderStored(doc, newLockedDates) ==
  LET new == Normalize(newLockedDates)
      existing == Normalize(doc.lockedDates)
      add == SelectSeqBy(new, Range(new) \ Range(existing))
      remove == {d \in Range(existing) \ Range(new) :
                   HasRecord(d) /\ hasDepositData(stats[d])}
      kept == LET F[i \in 0..Len(doc.lockedDates)] ==
                    IF i = 0 THEN <<>>
                    ELSE IF StartOfDay(doc.lockedDates[i]) \in remove
                      THEN F[i - 1] ELSE Append(F[i - 1], doc.lockedDates[i])
              IN F[Len(doc.lockedDates)]
  IN IF add # <<>> \/ remove # {} THEN kept \o add ELSE doc.lockedDates

----------------------------------------------------------------------------
(* DELETE /api/users/:id (users.js:226-261)                                  *)

Admins(u) == {i \in DOMAIN u : u[i] = "Admin"}

\* users.js:226-228: a request for id arrives and awaits User.findById.
DeleteStart(r, id) ==
  /\ delReq[r].pc \in {"idle", "done"}
  /\ delReq' = [delReq EXCEPT ![r] = [pc |-> "find", id |-> id, status |-> 0]]
  /\ UNCHANGED users

\* users.js:228-238: findById resolves: 404 if there is no such user; an
\* Admin goes on to the count, every other user to the delete.
DeleteFind(r) ==
  /\ delReq[r].pc = "find"
  /\ delReq' = [delReq EXCEPT ![r] =
                  IF delReq[r].id \notin DOMAIN users
                    THEN [@ EXCEPT !.pc = "done", !.status = 404]
                    ELSE IF users[delReq[r].id] = "Admin"
                           THEN [@ EXCEPT !.pc = "count"]
                           ELSE [@ EXCEPT !.pc = "delete"]]
  /\ UNCHANGED users

\* users.js:238-245: countDocuments({ role: 'Admin' }) resolves: 400 if at
\* most one Admin is stored.
adminCount(u) == Cardinality(Admins(u))

DeleteCount(r) ==
  /\ delReq[r].pc = "count"
  /\ delReq' = [delReq EXCEPT ![r] =
                  IF adminCount(users) <= 1
                    THEN [@ EXCEPT !.pc = "done", !.status = 400]
                    ELSE [@ EXCEPT !.pc = "delete"]]
  /\ UNCHANGED users

\* users.js:248-253: findByIdAndDelete resolves (removing nothing if the
\* user is gone already); the answer is 200.
DeleteRemove(r) ==
  /\ delReq[r].pc = "delete"
  /\ users' = [u \in DOMAIN users \ {delReq[r].id} |-> users[u]]
  /\ delReq' = [delReq EXCEPT ![r] = [@ EXCEPT !.pc = "done", !.status = 200]]

\* users.js:255-261: one of the awaits throws; the catch answers 500.
DeleteFail(r) ==
  /\ delReq[r].pc \in {"find", "count", "delete"}
  /\ delReq' = [delReq EXCEPT ![r] = [@ EXCEPT !.pc = "done", !.status = 500]]
  /\ UNCHANGED users

\* Users of either role, at least one of them an Admin (seedAdmin.js), and
\* account 1 with or without a day of activity.
InitUsers ==
  /\ clock = ClockAt(1, 43200)
  /\ hostOffset = 0
  /\ stats \in {<<>>,
                [d \in {ParseDate(0)} |-> [NewRecord EXCEPT !.registrationsCount = 1]]}
  /\ user = [lockedDates |-> <<>>, activeDates |-> <<>>]
  /\ pc = [p \in Procs |-> "idle"]
  /\ loc = [p \in Procs |-> IdleLoc]
  /\ lockReq = IdleLock
  /\ depReq = [r \in DepositRequests |-> IdleDep]
  /\ settled = "no"
  /\ wanted = NoWrite
  /\ pinned = {}
  /\ profile = NewProfile
  /\ reqs = IdleReqs
  /\ acct = 1
  /\ others = [a \in Accounts \ {1} |-> EmptyAccount]
  /\ sweep = IdleSweep
  /\ chk = IdleChk
  /\ users \in {u \in [UserIds -> {"Admin", "User"}] : Admins(u) # {}}
  /\ delReq = [r \in DeleteRequests |-> IdleDel]

passVars == <<clock, hostOffset, stats, user, pc, loc, lockReq, depReq>>

otherCallers == <<settled, wanted, pinned, acct, others, sweep, chk, profile, reqs>>

\* Overlapping DELETE requests, /increment, and a pass over account 1 that
\* was enumerated while the account existed.
NextUsers ==
  \/ (\E r \in DeleteRequests, id \in UserIds : DeleteStart(r, id))
       /\ UNCHANGED <<passVars, otherCallers>>
  \/ (\E r \in DeleteRequests : DeleteFind(r)) /\ UNCHANGED <<passVars, otherCallers>>
  \/ (\E r \in DeleteRequests : DeleteCount(r)) /\ UNCHANGED <<passVars, otherCallers>>
  \/ (\E r \in DeleteRequests : DeleteRemove(r)) /\ UNCHANGED <<passVars, otherCallers>>
  \/ (\E r \in DeleteRequests : DeleteFail(r)) /\ UNCHANGED <<passVars, otherCallers>>
  \/ IncrementRequest /\ UNCHANGED <<settled, wanted, callerVars>>
  \/ StartPass(1) /\ UNCHANGED <<settled, wanted, callerVars>>
  \/ PassStep(1) /\ UNCHANGED <<settled, wanted, callerVars>>
  \/ LoadMissing(1) /\ UNCHANGED <<settled, wanted, callerVars>>
  \/ Finish(1) /\ UNCHANGED <<settled, wanted, callerVars>>

SpecUsers == InitUsers /\ [][NextUsers]_vars

----------------------------------------------------------------------------
(* PUT /update-deposit await by await, with its response                    *)
(* (stats.js:247-347)                                                        *)

\* What a request body may carry.  username: nothing, a name no user has
\* (0), the account's name.  date: nothing or the string of day 0.
\* depositAmount: nothing, -1, 0.
PutBodies ==
  [username : {Null, Some(0), Some(1)},
   date : {Null, Some(0)},
   depositCount : BodyValues, depositAmount : {Undefined, Some(0 - 1), Some(0)},
   clientType : {"LineAPIBot", "Web"}, hwid : {NoHwid, "h1", "h2"}]

\* stats.js:252-278: the status the validation of the body answers, 0 when
\* the body passes.
PutStatusOfBody(b) ==
  IF \/ b.username = Null \/ b.date = Null
     \/ b.depositCount = Undefined \/ b.depositAmount = Undefined
    THEN 400
  ELSE IF b.clientType = "LineAPIBot" /\ b.hwid = NoHwid THEN 400
  ELSE IF ~(IsNumber(b.depositCount) /\ b.depositCount[1] >= 0) THEN 400
  ELSE IF ~(IsNumber(b.depositAmount) /\ b.depositAmount[1] >= 0) THEN 400
  ELSE 0

\* stats.js:280-295: the status answered after User.findOne.
PutStatusOfUser(b) ==
  IF ~(b.username = Some(acct) /\ acct \in DOMAIN users) THEN 404
  ELSE IF /\ b.clientType = "LineAPIBot"
          /\ profile.hwid # NoHwid /\ profile.hwid # b.hwid THEN 403
  ELSE 0

PutStatusOfRecordAnyDeposit(b) ==
  LET targetDate == ParseDate(b.date[1])
  IN IF ~HasRecord(targetDate) THEN 400
     ELSE IF ~hasActivity(stats[targetDate]) THEN 400
     ELSE 0

\* stats.js:297-325: the status answered after DailyStats.findOne.
PutStatusOfRecord(b) ==
  LET targetDate == ParseDate(b.date[1])
  IN IF ~HasRecord(targetDate) THEN 400
     ELSE IF ~hasActivity(stats[targetDate]) THEN 400
     ELSE IF \/ stats[targetDate].depositCount # Null
             \/ stats[targetDate].depositAmount # Null THEN 400
     ELSE 0

\* The request arrives: the synchronous part up to the first await.
PutArrive(b) ==
  /\ reqs.put.pc = "idle"
  /\ reqs' = [reqs EXCEPT !.put =
                [pc |-> IF PutStatusOfBody(b) = 0 THEN "user" ELSE "done",
                 body |-> b, status |-> PutStatusOfBody(b), stamp |-> Null]]
  /\ UNCHANGED <<clock, hostOffset, stats, user, pc, loc, lockReq, depReq, profile>>

\* await User.findOne resolves.
PutFindUser ==
  /\ reqs.put.pc = "user"
  /\ reqs' = IF PutStatusOfUser(reqs.put.body) = 0
               THEN [reqs EXCEPT !.put.pc = "stats"]
               ELSE [reqs EXCEPT !.put.pc = "done", !.put.status = PutStatusOfUser(reqs.put.body)]
  /\ UNCHANGED <<clock, hostOffset, stats, user, pc, loc, lockReq, depReq, profile>>

\* await DailyStats.findOne resolves.
PutFindStats ==
  /\ reqs.put.pc = "stats"
  /\ reqs' = IF PutStatusOfRecord(reqs.put.body) = 0
               THEN [reqs EXCEPT !.put.pc = "save"]
               ELSE [reqs EXCEPT !.put.pc = "done", !.put.status = PutStatusOfRecord(reqs.put.body)]
  /\ UNCHANGED <<clock, hostOffset, stats, user, pc, loc, lockReq, depReq, profile>>

\* stats.js:327-331: existingStats.save() stores the two fields; new Date()
\* is read as the save resolves.
PutSaveStats ==
  /\ reqs.put.pc = "save"
  /\ LET targetDate == ParseDate(reqs.put.body.date[1])
     IN stats' = [stats EXCEPT ![targetDate] =
                    [@ EXCEPT !.depositCount = reqs.put.body.depositCount,
                              !.depositAmount = reqs.put.body.depositAmount]]
  /\ reqs' = [reqs EXCEPT !.put.pc = "user_save", !.put.stamp = Some(clock)]
  /\ UNCHANGED <<clock, hostOffset, user, pc, loc, lockReq, depReq, profile>>

\* stats.js:332-338: user.save() stores lastDepositUpdateAt; the answer is 200.
PutSaveUser ==
  /\ reqs.put.pc = "user_save"
  /\ profile' = [profile EXCEPT !.lastDepositUpdateAt = reqs.put.stamp]
  /\ reqs' = [reqs EXCEPT !.put.pc = "done", !.put.status = 200]
  /\ UNCHANGED <<clock, hostOffset, stats, user, pc, loc, lockReq, depReq>>

\* stats.js:340-346: an await throws; the catch answers 500.
PutFail ==
  /\ reqs.put.pc \in {"user", "stats", "save", "user_save"}
  /\ reqs' = [reqs EXCEPT !.put.pc = "done", !.put.status = 500]
  /\ UNCHANGED <<clock, hostOffset, stats, user, pc, loc, lockReq, depReq, profile>>

\* The response is out and the locals of the handler are gone.
PutClose ==
  /\ reqs.put.pc = "done"
  /\ reqs' = [reqs EXCEPT !.put = IdleReqs.put]
  /\ UNCHANGED <<clock, hostOffset, stats, user, pc, loc, lockReq, depReq, profile>>

restVars == <<settled, wanted, pinned, acct, others, sweep, chk, users, delReq>>

\* The account may have logged in from a device before.
InitPut ==
  /\ clock = ClockAt(0, 43200)
  /\ hostOffset \in HostOffsets
  /\ stats \in {<<>>} \cup {[d \in {ParseDate(0)} |-> r] : r \in StoredRecords}
  /\ user = [lockedDates |-> <<>>, activeDates |-> <<>>]
  /\ pc = [p \in Procs |-> "idle"]
  /\ loc = [p \in Procs |-> IdleLoc]
  /\ lockReq = IdleLock
  /\ depReq = [r \in DepositRequests |-> IdleDep]
  /\ settled = "no"
  /\ wanted = NoWrite
  /\ pinned = {}
  /\ profile \in {[NewProfile EXCEPT !.hwid = h] : h \in {NoHwid, "h1"}}
  /\ reqs = IdleReqs
  /\ IdleCallers

\* One /update-deposit request at a time, next to /increment and the clock,
\* which moves on by a second.
NextPut ==
  \/ (\E b \in PutBodies : PutArrive(b)) /\ UNCHANGED restVars
  \/ PutFindUser /\ UNCHANGED restVars
  \/ PutFindStats /\ UNCHANGED restVars
  \/ PutSaveStats /\ UNCHANGED restVars
  \/ PutSaveUser /\ UNCHANGED restVars
  \/ PutFail /\ UNCHANGED restVars
  \/ PutClose /\ UNCHANGED restVars
  \/ IncrementRequest /\ UNCHANGED <<settled, wanted, callerVars>>
  \/ Tick({43201}) /\ BusinessDay(clock') = 0
                   /\ UNCHANGED <<settled, wanted, callerVars>>

SpecPut == InitPut /\ [][NextPut]_vars

----------------------------------------------------------------------------
(* POST /lock-account request after request (stats.js:349-398)              *)

\* stats.js:391-397: user.save() throws; the catch answers 500.
LockSaveFail ==
  /\ lockReq.pc = "save"
  /\ lockReq' = IdleLock
  /\ UNCHANGED <<clock, hostOffset, stats, user, pc, loc, depReq>>

\* One handler at a time: /lock-account, /increment, /update-deposit and
\* passes, at noon of one day and of the next.  A request for day k runs up
\* to its save, or to its answer when the day is stored already; the history
\* starts over when a request is answered 500 and when a pass starts.
NextLock ==
  \/ /\ Quiescent
     /\ \E k \in RequestDays :
          /\ LockAccount(k)
          /\ reqs' = [reqs EXCEPT !.lock =
                        [date |-> Some(ParseDate(k)), saved |-> lockReq'.pc = "save",
                         prior |-> reqs.lock.date, list |-> user.lockedDates]]
     /\ UNCHANGED <<settled, wanted, restVars, profile>>
  \/ LockSave /\ UNCHANGED <<settled, wanted, callerVars>>
  \/ LockSaveFail /\ reqs' = [reqs EXCEPT !.lock = IdleReqs.lock]
                  /\ UNCHANGED <<settled, wanted, restVars, profile>>
  \/ Quiescent /\ IncrementRequest /\ UNCHANGED <<settled, wanted, callerVars>>
  \/ Quiescent /\ DepositRequest /\ UNCHANGED <<settled, wanted, callerVars>>
  \/ DepositSave(1) /\ UNCHANGED <<settled, wanted, callerVars>>
  \/ Quiescent /\ Tick({43200}) /\ BusinessDay(clock') <= 2
               /\ UNCHANGED <<settled, wanted, callerVars>>
  \/ Quiescent /\ StartPass(1) /\ reqs' = [reqs EXCEPT !.lock = IdleReqs.lock]
               /\ UNCHANGED <<settled, wanted, restVars, profile>>
  \/ PassStep(1) /\ UNCHANGED <<settled, wanted, callerVars>>
  \/ Finish(1) /\ UNCHANGED <<settled, wanted, callerVars>>

SpecLock == InitRecords /\ [][NextLock]_vars

----------------------------------------------------------------------------
(* Presence: POST /heartbeat (heartbeat.js:31-66) and the sendStatus of the *)
(* status stream (status.js:39-59)                                           *)

onlineThreshold == 90
MaxBeats == 3
MaxElapsed == 270

wasOnlineInclusive(now, u) ==
  u.lastHeartbeatAt # Null /\ now - u.lastHeartbeatAt[1] <= onlineThreshold

\* heartbeat.js:43-44 and status.js:46-47:
\* user.lastHeartbeatAt && (now - new Date(user.lastHeartbeatAt)) / 1000 < 90
wasOnline(now, u) ==
  u.lastHeartbeatAt # Null /\ now - u.lastHeartbeatAt[1] < onlineThreshold

\* heartbeat.js:46-57, as applied to the stored document by the update.
updateData(now, u, stored) ==
  IF ~wasOnline(now, u) \/ u.onlineSince = Null
    THEN [stored EXCEPT !.lastHeartbeatAt = Some(now),
                        !.onlineSince = Some(now), !.heartbeatCount = 1]
    ELSE [stored EXCEPT !.lastHeartbeatAt = Some(now),
                        !.heartbeatCount = u.heartbeatCount + 1]

\* heartbeat.js:31-37: a heartbeat arrives; now is read before the first
\* await.
BeatArrive ==
  /\ reqs.beat.pc \in {"idle", "done"}
  /\ profile.heartbeatCount < MaxBeats
  /\ reqs' = [reqs EXCEPT !.beat = [IdleReqs.beat EXCEPT !.pc = "find", !.now = clock]]
  /\ UNCHANGED <<clock, hostOffset, stats, user, pc, loc, lockReq, depReq, profile>>

\* heartbeat.js:37-59: User.findById resolves.
BeatFind ==
  /\ reqs.beat.pc = "find"
  /\ reqs' = IF acct \in DOMAIN users
               THEN [reqs EXCEPT !.beat.pc = "update", !.beat.user = profile]
               ELSE [reqs EXCEPT !.beat.pc = "done", !.beat.status = 404]
  /\ UNCHANGED <<clock, hostOffset, stats, user, pc, loc, lockReq, depReq, profile>>

\* heartbeat.js:59-61: User.findByIdAndUpdate stores updateData.
BeatUpdate ==
  /\ reqs.beat.pc = "update"
  /\ profile' = updateData(reqs.beat.now, reqs.beat.user, profile)
  /\ reqs' = [reqs EXCEPT !.beat.pc = "done", !.beat.status = 200]
  /\ UNCHANGED <<clock, hostOffset, stats, user, pc, loc, lockReq, depReq>>

\* heartbeat.js:62-65: an await throws; the catch answers 500.
BeatFail ==
  /\ reqs.beat.pc \in {"find", "update"}
  /\ reqs' = [reqs EXCEPT !.beat.pc = "done", !.beat.status = 500]
  /\ UNCHANGED <<clock, hostOffset, stats, user, pc, loc, lockReq, depReq, profile>>

\* status.js:41-59: User.find resolves; for an account that is offline with
\* heartbeatCount > 0 an update is sent and not awaited.
StatusRead ==
  /\ reqs.status.pc = "idle"
  /\ ~wasOnline(clock, profile) /\ profile.heartbeatCount > 0
  /\ reqs' = [reqs EXCEPT !.status =
                [pc |-> "update", heartbeatCount |-> profile.heartbeatCount]]
  /\ UNCHANGED <<clock, hostOffset, stats, user, pc, loc, lockReq, depReq, profile>>

\* status.js:52-56: the update is applied.
StatusUpdate ==
  /\ reqs.status.pc = "update"
  /\ profile' = [profile EXCEPT !.lastHeartbeatCount = reqs.status.heartbeatCount,
                                !.heartbeatCount = 0, !.onlineSince = Null]
  /\ reqs' = [reqs EXCEPT !.status = IdleReqs.status]
  /\ UNCHANGED <<clock, hostOffset, stats, user, pc, loc, lockReq, depReq>>

\* status.js:56-58: the update is rejected; the error is logged.
StatusUpdateFail ==
  /\ reqs.status.pc = "update"
  /\ reqs' = [reqs EXCEPT !.status = IdleReqs.status]
  /\ UNCHANGED <<clock, hostOffset, stats, user, pc, loc, lockReq, depReq, profile>>

\* Time passes: 30, 60 or 90 seconds.
BeatTick ==
  /\ \E d \in {30, 60, 90} :
       /\ clock + d <= ClockAt(0, 43200) + MaxElapsed
       /\ clock' = clock + d
  /\ UNCHANGED <<hostOffset, stats, user, pc, loc, lockReq, depReq, profile, reqs>>

\* An account before its first heartbeat and its first login, on one host.
InitAccount ==
  /\ clock = ClockAt(0, 43200)
  /\ hostOffset = 0 - 420
  /\ stats = <<>>
  /\ user = [lockedDates |-> <<>>, activeDates |-> <<>>]
  /\ pc = [p \in Procs |-> "idle"]
  /\ loc = [p \in Procs |-> IdleLoc]
  /\ lockReq = IdleLock
  /\ depReq = [r \in DepositRequests |-> IdleDep]
  /\ settled = "no"
  /\ wanted = NoWrite
  /\ pinned = {}
  /\ profile = NewProfile
  /\ reqs = IdleReqs
  /\ IdleCallers

\* One heartbeat after another of one account, while the status stream runs.
NextBeat ==
  \/ BeatArrive /\ UNCHANGED restVars
  \/ BeatFind /\ UNCHANGED restVars
  \/ BeatUpdate /\ UNCHANGED restVars
  \/ BeatFail /\ UNCHANGED restVars
  \/ StatusRead /\ UNCHANGED restVars
  \/ StatusUpdate /\ UNCHANGED restVars
  \/ StatusUpdateFail /\ UNCHANGED restVars
  \/ BeatTick /\ UNCHANGED restVars

SpecBeat == InitAccount /\ [][NextBeat]_vars

----------------------------------------------------------------------------
(* POST /login (auth.js:89-181) and POST /users/:id/reset-hwid              *)
(* (users.js:313-339) await by await                                         *)

\* auth.js:93-107: the validators of lines 90-91, then await User.findOne.
LoginArrive(r, b) ==
  /\ reqs.login[r].pc = "idle"
  /\ reqs' = [reqs EXCEPT !.login[r] =
                [IdleReqs.login[r] EXCEPT
                   !.body = b,
                   !.pc = IF b.user = Null \/ b.password = "" THEN "done" ELSE "find",
                   !.status = IF b.user = Null \/ b.password = "" THEN 400 ELSE 0]]
  /\ UNCHANGED <<clock, hostOffset, stats, user, pc, loc, lockReq, depReq, profile>>

\* auth.js:107-116: findOne resolves; await comparePassword.
LoginFind(r) ==
  /\ reqs.login[r].pc = "find"
  /\ reqs' = IF reqs.login[r].body.user = Some(acct) /\ acct \in DOMAIN users
               THEN [reqs EXCEPT !.login[r].pc = "compare",
                                 !.login[r].foundUser = profile]
               ELSE [reqs EXCEPT !.login[r].pc = "done", !.login[r].status = 401]
  /\ UNCHANGED <<clock, hostOffset, stats, user, pc, loc, lockReq, depReq, profile>>

\* auth.js:125-147: the status the HWID test answers on foundUser, 0 when
\* the login goes on.
hwidStatus(hwid, foundUser) ==
  IF hwid # NoHwid
    THEN IF foundUser.hwid # NoHwid /\ foundUser.hwid # hwid THEN 403 ELSE 0
    ELSE IF foundUser.hwid # NoHwid THEN 400 ELSE 0

\* auth.js:116-158: comparePassword resolves; the HWID test; foundUser gets
\* the hwid of a first login, lastLoginAt and lastLoginIP (the address
\* request r comes from, lines 149-153); await save.
LoginCompare(r) ==
  /\ reqs.login[r].pc = "compare"
  /\ LET l == reqs.login[r]
         first == l.body.hwid # NoHwid /\ l.foundUser.hwid = NoHwid
     IN reqs' =
          IF l.body.password # "good" THEN [reqs EXCEPT !.login[r].pc = "done", !.login[r].status = 401]
          ELSE IF hwidStatus(l.body.hwid, l.foundUser) # 0
            THEN [reqs EXCEPT !.login[r].pc = "done", !.login[r].status = hwidStatus(l.body.hwid, l.foundUser)]
          ELSE [reqs EXCEPT
                  !.login[r].pc = "save",
                  !.login[r].hwidModified = first,
                  !.login[r].foundUser =
                     [l.foundUser EXCEPT
                        !.hwid = IF first THEN l.body.hwid ELSE @,
                        !.lastLoginAt = Some(clock),
                        !.lastLoginIP = Some(r)]]
  /\ UNCHANGED <<clock, hostOffset, stats, user, pc, loc, lockReq, depReq, profile>>

\* auth.js:158-171: foundUser.save() stores the paths the handler assigned;
\* the answer is 200.
LoginSave(r) ==
  /\ reqs.login[r].pc = "save"
  /\ LET l == reqs.login[r]
     IN profile' = [profile EXCEPT
                      !.hwid = IF l.hwidModified THEN l.foundUser.hwid ELSE @,
                      !.lastLoginAt = l.foundUser.lastLoginAt,
                      !.lastLoginIP = l.foundUser.lastLoginIP]
  /\ reqs' = [reqs EXCEPT !.login[r].pc = "done", !.login[r].status = 200]
  /\ UNCHANGED <<clock, hostOffset, stats, user, pc, loc, lockReq, depReq>>

\* auth.js:173-179: an await throws; the catch answers 500.
LoginFail(r) ==
  /\ reqs.login[r].pc \in {"find", "compare", "save"}
  /\ reqs' = [reqs EXCEPT !.login[r].pc = "done", !.login[r].status = 500]
  /\ UNCHANGED <<clock, hostOffset, stats, user, pc, loc, lockReq, depReq, profile>>

\* The response is out and the locals of the handler are gone.
LoginClose(r) ==
  /\ reqs.login[r].pc = "done"
  /\ reqs' = [reqs EXCEPT !.login[r] = IdleReqs.login[r]]
  /\ UNCHANGED <<clock, hostOffset, stats, user, pc, loc, lockReq, depReq, profile>>

\* users.js:313-315: an admin's request arrives; await User.findById.
ResetArrive ==
  /\ reqs.reset.pc \in {"idle", "done"}
  /\ reqs' = [reqs EXCEPT !.reset = [IdleReqs.reset EXCEPT !.pc = "find"]]
  /\ UNCHANGED <<clock, hostOffset, stats, user, pc, loc, lockReq, depReq, profile>>

\* users.js:315-324: findById resolves; user.hwid = null; await user.save().
ResetFind ==
  /\ reqs.reset.pc = "find"
  /\ reqs' = IF acct \in DOMAIN users
               THEN [reqs EXCEPT !.reset.pc = "save",
                                 !.reset.hwidModified = profile.hwid # NoHwid]
               ELSE [reqs EXCEPT !.reset.pc = "done", !.reset.status = 404]
  /\ UNCHANGED <<clock, hostOffset, stats, user, pc, loc, lockReq, depReq, profile>>

\* users.js:324-330: user.save() stores hwid when the assignment changed it.
ResetSave ==
  /\ reqs.reset.pc = "save"
  /\ profile' = [profile EXCEPT !.hwid = IF reqs.reset.hwidModified THEN NoHwid ELSE @]
  /\ reqs' = [reqs EXCEPT !.reset.pc = "done", !.reset.status = 200]
  /\ UNCHANGED <<clock, hostOffset, stats, user, pc, loc, lockReq, depReq>>

\* users.js:332-338: an await throws; the catch answers 500.
ResetFail ==
  /\ reqs.reset.pc \in {"find", "save"}
  /\ reqs' = [reqs EXCEPT !.reset.pc = "done", !.reset.status = 500]
  /\ UNCHANGED <<clock, hostOffset, stats, user, pc, loc, lockReq, depReq, profile>>

\* Logins of one account from two devices, overlapping at their awaits, and
\* an admin resetting the HWID.  A login body carries as user nothing, a name
\* no user has (0) or the account's name, as password nothing, a wrong one or
\* the right one, and no hwid or one of two.
NextLogin ==
  \/ /\ \E r \in 1..NumLoginRequests,
             b \in [user : {Null, Some(0), Some(1)},
                    password : {"", "bad", "good"},
                    hwid : {NoHwid, "h1", "h2"}] : LoginArrive(r, b)
     /\ UNCHANGED restVars
  \/ (\E r \in 1..NumLoginRequests : LoginFind(r)) /\ UNCHANGED restVars
  \/ (\E r \in 1..NumLoginRequests : LoginCompare(r)) /\ UNCHANGED restVars
  \/ (\E r \in 1..NumLoginRequests : LoginSave(r)) /\ UNCHANGED restVars
  \/ (\E r \in 1..NumLoginRequests : LoginFail(r)) /\ UNCHANGED restVars
  \/ (\E r \in 1..NumLoginRequests : LoginClose(r)) /\ UNCHANGED restVars
  \/ ResetArrive /\ UNCHANGED restVars
  \/ ResetFind /\ UNCHANGED restVars
  \/ ResetSave /\ UNCHANGED restVars
  \/ ResetFail /\ UNCHANGED restVars

SpecLogin == InitAccount /\ [][NextLogin]_vars

----------------------------------------------------------------------------
(* Definitions used to state the properties *)

\* The calendar days of the persisted lockedDates.
LockedDays(u) == Range(Normalize(u.lockedDates))

\* The record of day d carries a full deposit entry.
FullDeposit(d) ==
  HasRecord(d) /\ stats[d].depositCount # Null /\ stats[d].depositAmount # Null

\* The record of day d shows activity and no deposit.
OpenActivity(d) ==
  /\ HasRecord(d)
  /\ stats[d].registrationsCount + stats[d].friendsAddedCount
       + stats[d].groupsCreatedCount + stats[d].messagesSentCount > 0
  /\ ~FullDeposit(d)

\* The business-timezone today at the instant pass p read the clock.
TodayOf(p) == BusinessDay(loc[p].startedAt)

\* Pass p ends in this step (its last await resolves).
Ends(p) == pc[p] # "done" /\ pc'[p] = "done"

\* Pass p's user.save() resolves in this step.
Saves(p) == pc[p] = "save" /\ pc'[p] = "done"

\* Pass p is past its evaluator, which met no store error.
Evaluated(p) == pc[p] \in {"load", "lookup", "save", "done"} /\ ~loc[p].failed

\* Day d lies 8 or more calendar days before the today of pass p.
OutOfWindow(p, d) == d <= ParseDate(TodayOf(p) - 8)

----------------------------------------------------------------------------
(* The claims *)

\* C1 (one-way lock): every step that takes a day out of the persisted
\* lockedDates is the save of a pass that looked the day's record up and found
\* a full deposit entry; a locked day without one stays locked, whatever the
\* evaluator returned and however old the day is.
C1_OneWayLock ==
  [][\A d \in LockedDays(user) \ LockedDays(user') :
        /\ FullDeposit(d)
        /\ \E p \in Procs : Saves(p) /\ d \in Range(loc[p].datesToRemove)]_vars

\* A pass ran a week after the day was locked: the evaluator returned nothing,
\* the reconciler looked the day up, found no deposit and kept it.
C1_Witness ==
  \E p \in Procs :
    /\ pc[p] = "done" /\ ~loc[p].failed
    /\ loc[p].lockedDates = <<>>
    /\ ParseDate(0) \in LockedDays(loc[p].doc)
    /\ ParseDate(0) \in LockedDays(user)
    /\ OutOfWindow(p, ParseDate(0))
    /\ OpenActivity(ParseDate(0))

\* C2 (deposit clears lock): when a pass began after a day's record had
\* gained its full deposit, read the day in lockedDates and ends without a
\* store error, the day is not in the persisted lockedDates, inside the window
\* or outside it.
C2_DepositClearsLock ==
  [][\A p \in Procs :
        (Ends(p) /\ ~loc'[p].failed)
          => \A d \in LockedDays(loc'[p].doc) :
               (FullDeposit(d) /\ d \in loc'[p].depositedAtStart)
                 => d \notin LockedDays(user')]_vars

\* A locked day that had left the window gained a deposit and the next pass
\* took it out.
C2_Witness ==
  \E p \in Procs :
    /\ pc[p] = "done" /\ loc[p].saved
    /\ ParseDate(0) \in loc[p].depositedAtStart
    /\ ParseDate(0) \in LockedDays(loc[p].doc)
    /\ ParseDate(0) \notin LockedDays(user)
    /\ OutOfWindow(p, ParseDate(0))

C4_Serialized ==
  \A p, q \in Procs :
    p # q => ~(pc[p] \in {"lookup", "save"} /\ pc[q] \in {"lookup", "save"})

\* C5 (set semantics): the persisted lockedDates never holds two entries of
\* the same calendar day.
C5_NoDuplicateDays ==
  \A i, j \in 1..Len(user.lockedDates) :
    i # j => StartOfDay(user.lockedDates[i]) # StartOfDay(user.lockedDates[j])

\* C6 (no re-lock of a resolved day): the save of a pass never adds a day
\* whose record carries a full deposit entry.
C6_NoLockWithDeposit ==
  [][\A p \in Procs :
        Saves(p) => \A d \in LockedDays(user') \ LockedDays(user) : ~FullDeposit(d)]_vars

\* C7 (today is never locked directly): the evaluator's locked list never
\* holds the business-timezone today of the instant it read the clock, and so
\* a pass never adds it.
C7_TodayNeverLocked ==
  \A p \in Procs :
    pc[p] # "idle"
      => /\ ParseDate(TodayOf(p)) \notin Range(Normalize(loc[p].lockedDates))
         /\ ParseDate(TodayOf(p)) \notin Range(datesToAdd(loc[p]))

\* The evaluator returned with today active (activity, no deposit) and an
\* earlier day locked, late in the day.
C7_Witness ==
  \E p \in Procs :
    /\ Evaluated(p)
    /\ OpenActivity(ParseDate(TodayOf(p)))
    /\ loc[p].activeDates # <<>>
    /\ loc[p].lockedDates # <<>>
    /\ BusinessTod(loc[p].startedAt) >= 82740

\* C8 (grace window boundary): a past day D of the window with activity and
\* no deposit is in the evaluator's locked list iff the business-time instant
\* is at or after (D+1) 12:00:00; it is never in the active list; and once it
\* is in the locked list it is in the persisted lockedDates when the pass has
\* ended without a store error.
C8_GraceBoundary ==
  \A p \in Procs :
    Evaluated(p)
      => \A D \in (TodayOf(p) - WindowBack)..(TodayOf(p) - 1) :
           OpenActivity(ParseDate(D))
             => /\ ParseDate(D) \in Range(loc[p].lockedDates)
                   <=> loc[p].startedAt >= ClockAt(D + 1, 43200)
                /\ \A i \in 1..Len(loc[p].activeDates) :
                     loc[p].activeDates[i].canSubmitAt # SetHours(ParseDate(D), 23)
                /\ (pc[p] = "done" /\ ParseDate(D) \in Range(loc[p].lockedDates))
                     => ParseDate(D) \in LockedDays(user)

\* At (D+1) 12:00:00 exactly a pass locked D and saved it.
C8_Witness ==
  \E p \in Procs :
    /\ pc[p] = "done" /\ loc[p].saved
    /\ BusinessTod(loc[p].startedAt) = 43200
    /\ OpenActivity(ParseDate(TodayOf(p) - 1))
    /\ ParseDate(TodayOf(p) - 1) \notin LockedDays(loc[p].doc)
    /\ ParseDate(TodayOf(p) - 1) \in LockedDays(user)

\* C9 (submittability boundary): when today's record has activity and no
\* deposit, the evaluator returns one active entry, for today, whose
\* isSubmittable is true exactly from 23:00:00 business time on.
C9_SubmitBoundary ==
  \A p \in Procs :
    (Evaluated(p) /\ OpenActivity(ParseDate(TodayOf(p))))
      => /\ Len(loc[p].activeDates) = 1
         /\ loc[p].activeDates[1].canSubmitAt = ClockAt(TodayOf(p), 82800)
                                                  + (bangkokOffset + hostOffset) * 60
         /\ loc[p].activeDates[1].isSubmittable
              <=> BusinessTod(loc[p].startedAt) >= 82800

\* At 23:00:00 exactly the active entry is submittable.
C9_Witness ==
  \E p \in Procs :
    /\ Evaluated(p) /\ OpenActivity(ParseDate(TodayOf(p)))
    /\ BusinessTod(loc[p].startedAt) = 82800
    /\ loc[p].activeDates[1].isSubmittable

C11_ExactPostcondition ==
  \A p \in Procs :
    (pc[p] = "done" /\ ~loc[p].failed)
      => LockedDays(user)
           = (LockedDays(loc[p].doc)
                \ {d \in LockedDays(loc[p].doc) :
                     d \notin Range(Normalize(loc[p].lockedDates)) /\ FullDeposit(d)})
             \cup Range(Normalize(loc[p].lockedDates))

\* One pass took a day with a deposit out and put a newly overdue day in.
C11_Witness ==
  \E p \in Procs :
    /\ pc[p] = "done" /\ loc[p].saved
    /\ LockedDays(loc[p].doc) \ LockedDays(user) # {}
    /\ LockedDays(user) \ LockedDays(loc[p].doc) # {}

\* The reconciler of pass p got as far as the decision of line 193: it is
\* awaiting user.save(), or it returned and neither the account load nor a
\* lookup of the removal loop had thrown.
Decided(p) ==
  pc[p] = "save" \/ (pc[p] = "done" /\ loc[p].failedAt \notin {"load", "lookup"})

\* The three changes a reconciler computes, from what it read.
AddComputed(p) == Range(Normalize(loc[p].lockedDates)) \ LockedDays(loc[p].doc) # {}
RemoveComputed(p) == loc[p].datesToRemove # <<>>
ActiveComputed(p) == loc[p].doc.activeDates # loc[p].activeDates

C13_ErrorsLeaveAccount ==
  [][\A p \in Procs :
        (pc[p] # "idle" /\ loc[p].failed)
          => /\ user'.lockedDates = user.lockedDates
             /\ user'.activeDates = user.activeDates]_vars

\* C14 (evaluator failure): once a findOne of the evaluator has thrown, the
\* evaluator has returned (it reads no further day in this pass) with both
\* lists empty, whatever it had computed for earlier days; the reconciler
\* that follows computes nothing to add and persists no new locked day.
C14_EvaluatorFailure ==
  \A p \in Procs :
    loc[p].evalFailed
      => /\ pc[p] \in {"load", "lookup", "save", "done"}
         /\ loc[p].lockedDates = <<>> /\ loc[p].activeDates = <<>>
         /\ datesToAdd(loc[p]) = <<>>
         /\ "added" \notin loc[p].logs
         /\ (pc[p] = "done" /\ loc[p].failedAt # "load")
              => LockedDays(user) \subseteq LockedDays(loc[p].doc)

\* The evaluator threw in a pass that would have locked yesterday; the pass
\* has ended and yesterday is not locked.
C14_Witness ==
  \E p \in Procs :
    /\ pc[p] = "done" /\ loc[p].evalFailed
    /\ OpenActivity(ParseDate(TodayOf(p) - 1))
    /\ loc[p].startedAt >= ClockAt(TodayOf(p), 43200)
    /\ ParseDate(TodayOf(p) - 1) \notin LockedDays(user)

\* C15 (sweep isolation): once User.find has returned the accounts, the
\* sweep comes to its end with every one of them evaluated and reconciled, in
\* order, whatever store errors their passes met; the catch of the sweep is
\* not reached by them.
C15_SweepIsolation ==
  (sweep.pc = "loop")
    ~> (sweep.pc = "done" /\ ~sweep.aborted /\ sweep.processed = sweep.found)

\* A sweep ended in which the pass of the first account met a store error and
\* the accounts after it were processed all the same.
C15_Witness ==
  /\ sweep.pc = "done" /\ ~sweep.aborted
  /\ sweep.found[1] \in sweep.erred
  /\ sweep.processed = sweep.found

\* C19 (sweep tallies): when a sweep ends, totalChecked is the number of
\* accounts User.find returned, each processed once and in order, and
\* totalLocked is the number of them whose persisted lockedDates holds a day.
C19_SweepTallies ==
  (sweep.pc = "done" /\ ~sweep.aborted)
    => /\ sweep.totalChecked = Len(sweep.found)
       /\ sweep.processed = sweep.found
       /\ sweep.totalLocked
            = Cardinality({a \in Accounts : AccountDoc(a).user.lockedDates # <<>>})

\* C16 (only the reconciler writes the lock state): every step that changes
\* the persisted lockedDates or activeDates is the save of a pass.
C16_OnlyReconcilerWrites ==
  [][(user'.lockedDates # user.lockedDates \/ user'.activeDates # user.activeDates)
       => \E p \in Procs : Saves(p)]_vars

\* C17 (deposit immutability): once a record has both deposit fields set, no
\* step changes either of them, whatever /update-deposit requests overlap.
C17_DepositImmutable ==
  [][\A d \in DOMAIN stats :
        FullDeposit(d)
          => /\ stats'[d].depositCount = stats[d].depositCount
             /\ stats'[d].depositAmount = stats[d].depositAmount]_vars

\* C18 (deposit pair integrity): every record has depositCount and
\* depositAmount both null or both set.
C18_DepositPair ==
  \A d \in DOMAIN stats :
    (stats[d].depositCount = Null) <=> (stats[d].depositAmount = Null)

\* Two records, one with its deposit recorded and one without, while a
\* further /update-deposit request is in flight.
C18_Witness ==
  /\ \E d \in DOMAIN stats : FullDeposit(d)
  /\ \E d \in DOMAIN stats : stats[d].depositCount = Null
  /\ \E r \in DepositRequests : depReq[r].pc = "save"

\* C20 (on-demand failure surface): a GET /check-lock request during which
\* a store error occurred is answered with status 200 and empty lockedDates
\* and activeDates.
C20_OnDemandFailure ==
  (chk.pc = "done" /\ chk.erred)
    => /\ chk.status = 200
       /\ chk.body.lockedDates = <<>>
       /\ chk.body.activeDates = <<>>

\* C21 (on-demand result): a GET /check-lock request without a date that
\* is answered after its reconcile pass returns activeDates equal to the
\* persisted activeDates, isLocked true exactly when the persisted
\* lockedDates is non-empty, and as lockedDates the calendar days of the
\* persisted lockedDates, in their order.
C21_OnDemandResult ==
  (chk.pc = "done" /\ chk.status = 200 /\ chk.date = Null)
    => /\ chk.body.activeDates = user.activeDates
       /\ chk.body.isLocked = (Len(user.lockedDates) > 0)
       /\ Len(chk.body.lockedDates) = Len(user.lockedDates)
       /\ \A i \in 1..Len(user.lockedDates) :
            ParseDate(chk.body.lockedDates[i]) = user.lockedDates[i]

\* The same answer with the locked days left out.
C21_ListsAndFlag ==
  (chk.pc = "done" /\ chk.status = 200 /\ chk.date = Null)
    => /\ chk.body.activeDates = user.activeDates
       /\ chk.body.isLocked = (Len(user.lockedDates) > 0)
       /\ Len(chk.body.lockedDates) = Len(user.lockedDates)

\* C22 (missing account): when the account load of updateUserLockedDates
\* resolves for an account that no longer exists, the function is over with
\* that step: it goes to no record lookup and to no save, writes no log line,
\* leaves the stored records and what is left of the account as they are, and
\* records no error (its locals, the error history among them, are unchanged).
C22_MissingAccount ==
  [][\A p \in Procs :
       (/\ pc[p] = "load" /\ pc'[p] # "load"
        /\ acct \notin DOMAIN users
        /\ loc'[p].failedAt # "load")
         => /\ pc'[p] = "done"
            /\ loc'[p] = loc[p]
            /\ user' = user /\ stats' = stats]_vars

\* A pass over a deleted account has ended without an error and without a
\* save although its evaluator had computed an active entry the account
\* does not carry.
C22_Witness ==
  /\ pc[1] = "done"
  /\ acct \notin DOMAIN users
  /\ ~loc[1].failed /\ loc[1].saves = 0
  /\ loc[1].activeDates # <<>> /\ user.activeDates = <<>>

\* C27 (last-admin protection): whatever DELETE /api/users/:id requests
\* run and overlap, at least one user of role Admin exists.
C27_LastAdmin == Admins(users) # {}

\* The part of C27 about one request: a request answered 400 found a single
\* Admin stored when it counted, and its answer deletes nothing.
C27_RejectedDeletesNothing ==
  [][\A r \in DeleteRequests :
       (delReq[r].pc = "count" /\ delReq'[r].pc = "done" /\ delReq'[r].status = 400)
         => /\ users' = users
            /\ Cardinality(Admins(users)) <= 1]_vars

\* C23 (host-independent window): on either host, at every clock reading,
\* the window a pass builds is 7 days long, each element the date of the
\* calendar day after its predecessor's, and its last element the date of
\* the calendar day the UTC+7 wall clock showed when the pass read the clock.
C23_HostIndependentWindow ==
  \A p \in Procs :
    pc[p] # "idle"
      => LET dates == datesToCheck(StartOfDay(loc[p].bangkokNow))
         IN /\ Len(dates) = 7
            /\ \A j \in 1..Len(dates) :
                 dates[j] = ParseDate(TodayOf(p) - (Len(dates) - j))

\* A pass started at 00:00:00 business time on a host west of UTC, whose own
\* calendar still shows the day before.
C23_Witness ==
  \E p \in Procs :
    /\ pc[p] # "idle"
    /\ hostOffset > 0
    /\ BusinessTod(loc[p].startedAt) = 0
    /\ TodayOf(p) >= 7
    /\ (loc[p].startedAt - hostOffset * 60) \div SecondsPerDay < TodayOf(p)

C25_VariantsAgree ==
  \A p \in Procs :
    /\ Evaluated(p) => loc[p].lockedDates = pastDatesLocked(loc[p].bangkokNow)
    /\ (pc[p] = "done" /\ ~loc[p].failed)
         => user.lockedDates = OlderStored(loc[p].doc, pastDatesLocked(loc[p].bangkokNow))

\* A pass ended with a save that added a locked day and took another out
\* of lockedDates.
C25_Witness ==
  \E p \in Procs :
    /\ pc[p] = "done" /\ ~loc[p].failed /\ loc[p].saved
    /\ loc[p].datesToRemove # <<>>
    /\ Range(Normalize(loc[p].lockedDates)) \ LockedDays(loc[p].doc) # {}

\* C26 (activity counters stay non-negative): in every state the four
\* counters of every record are at least 0, whatever counts the /increment
\* requests carried.
C26_CountersNonNegative ==
  \A d \in DOMAIN stats :
    /\ stats[d].registrationsCount >= 0
    /\ stats[d].friendsAddedCount >= 0
    /\ stats[d].groupsCreatedCount >= 0
    /\ stats[d].messagesSentCount >= 0

\* The window of pass p, and the records C28 is about.
WindowOf(p) == Range(datesToCheck(StartOfDay(loc[p].bangkokNow)))

DepositEntered(r) == IsNumber(r.depositCount) /\ IsNumber(r.depositAmount)

\* C28 (skip rules of the evaluator): when the evaluator of a pass has
\* returned without a store error, a day of its window that has no record,
\* or a record with all four counters 0, or a record with both deposit
\* fields set, is not in its locked list and has no entry in its active
\* list.
C28_SkipRules ==
  \A p \in Procs :
    Evaluated(p)
      => \A d \in WindowOf(p) :
           (~HasRecord(d) \/ AllZero(stats[d]) \/ DepositEntered(stats[d]))
             => /\ d \notin Range(loc[p].lockedDates)
                /\ \A i \in 1..Len(loc[p].activeDates) :
                     loc[p].activeDates[i].canSubmitAt # SetHours(d, 23)

\* The evaluator has returned for a window that holds a day past its
\* deadline whose record has all counters 0 and no deposit, a day with
\* activity and a deposit, and days without a record.
C28_Witness ==
  \E p \in Procs :
    /\ Evaluated(p)
    /\ \E d \in WindowOf(p) :
         /\ HasRecord(d) /\ AllZero(stats[d]) /\ stats[d].depositCount = Null
         /\ isPastDeadline(loc[p].bangkokNow, d)
    /\ \E d \in WindowOf(p) :
         HasRecord(d) /\ hasActivity(stats[d]) /\ DepositEntered(stats[d])
    /\ \E d \in WindowOf(p) : ~HasRecord(d)

\* C29 (hasDeposit iff the deposit entry is fully present): for every
\* stored record hasDepositData is true exactly when depositCount and
\* depositAmount both hold a value, and false when either is null or missing.
C29_HasDepositIffFull ==
  \A d \in DOMAIN stats : hasDepositData(stats[d]) <=> DepositEntered(stats[d])

\* The same for records whose deposit fields are stored (as null or a value).
C29_StoredFieldsOnly ==
  \A d \in DOMAIN stats :
    (stats[d].depositCount # Undefined /\ stats[d].depositAmount # Undefined)
      => (hasDepositData(stats[d]) <=> DepositEntered(stats[d]))

\* C30 (active list replacement): when a pass has ended without a store
\* error, the persisted activeDates is the evaluator's activeDates of that
\* pass; every entry it holds is the one of the pass's today, whose record
\* has activity and no deposit, so an entry of an earlier day or of a today
\* whose deposit was recorded is gone.
C30_ActiveReplaced ==
  \A p \in Procs :
    (pc[p] = "done" /\ ~loc[p].failed)
      => /\ user.activeDates = loc[p].activeDates
         /\ \A i \in 1..Len(user.activeDates) :
              /\ user.activeDates[i].canSubmitAt = SetHours(ParseDate(TodayOf(p)), 23)
              /\ OpenActivity(ParseDate(TodayOf(p)))

\* A pass on a later day has ended without a store error and has emptied an
\* activeDates that held the entry of an earlier day.
C30_Witness ==
  \E p \in Procs :
    /\ pc[p] = "done" /\ ~loc[p].failed /\ loc[p].saved
    /\ user.activeDates = <<>>
    /\ \E i \in 1..Len(loc[p].doc.activeDates) :
         loc[p].doc.activeDates[i].canSubmitAt < ParseDate(TodayOf(p))

\* C31 (shape of the active list): when the evaluator of a pass has
\* returned, its active list has at most one entry, and the entry has
\* hasActivity true, hasDeposit false, canSubmitAt at 23:00 of today, and as
\* date the business calendar day of today, on either host.
C31_ActiveShape ==
  \A p \in Procs :
    Evaluated(p)
      => /\ Len(loc[p].activeDates) <= 1
         /\ \A i \in 1..Len(loc[p].activeDates) :
              LET e == loc[p].activeDates[i]
              IN /\ e.hasActivity /\ ~e.hasDeposit
                 /\ e.canSubmitAt = SetHours(ParseDate(TodayOf(p)), 23)
                 /\ e.date = TodayOf(p)

\* The same without the date field.
C31_ShapeWithoutDate ==
  \A p \in Procs :
    Evaluated(p)
      => /\ Len(loc[p].activeDates) <= 1
         /\ \A i \in 1..Len(loc[p].activeDates) :
              LET e == loc[p].activeDates[i]
              IN /\ e.hasActivity /\ ~e.hasDeposit
                 /\ e.canSubmitAt = SetHours(ParseDate(TodayOf(p)), 23)

\* The evaluator of pass p has returned, with or without a store error.
Returned(p) == pc[p] \in {"load", "lookup", "save", "done"}

\* C32 (locked and active are disjoint): in every result of the evaluator
\* every locked day and the day every active entry names in its date lie in
\* the window, and no active entry names a locked day.
C32_Disjoint ==
  \A p \in Procs :
    Returned(p)
      => /\ Range(loc[p].lockedDates) \subseteq WindowOf(p)
         /\ \A i \in 1..Len(loc[p].activeDates) :
              /\ ParseDate(loc[p].activeDates[i].date) \in WindowOf(p)
              /\ ParseDate(loc[p].activeDates[i].date) \notin Range(loc[p].lockedDates)

\* The same with the day of an active entry taken from its canSubmitAt.
C32_DisjointByDeadline ==
  \A p \in Procs :
    Returned(p)
      => /\ Range(loc[p].lockedDates) \subseteq WindowOf(p)
         /\ \A i \in 1..Len(loc[p].activeDates) :
              /\ StartOfDay(loc[p].activeDates[i].canSubmitAt) \in WindowOf(p)
              /\ StartOfDay(loc[p].activeDates[i].canSubmitAt) \notin Range(loc[p].lockedDates)

\* C33 (roll-forward): when a pass that read the clock at a business-time
\* instant from (D+1) 12:00:00 up to the end of day D+6 has ended without a
\* store error and D's record has activity and no deposit, D is in the
\* persisted lockedDates; and no step takes a day out of lockedDates whose
\* record has activity and, after the step, still no deposit.
C33_RollForward ==
  /\ [](\A p \in Procs : \A D \in RequestDays :
          (/\ pc[p] = "done" /\ ~loc[p].failed
           /\ OpenActivity(ParseDate(D))
           /\ loc[p].startedAt >= ClockAt(D + 1, 43200)
           /\ loc[p].startedAt < ClockAt(D + 7, 0))
            => ParseDate(D) \in LockedDays(user))
  /\ [][\A d \in LockedDays(user) :
          (/\ OpenActivity(d)
           /\ d \in DOMAIN stats'
           /\ (stats'[d].depositCount = Null \/ stats'[d].depositAmount = Null))
            => d \in LockedDays(user')]_vars

\* A pass that read the clock at 23:59:59 of day D+6 has locked D, which no
\* earlier pass had locked.
C33_Witness ==
  \E p \in Procs : \E D \in RequestDays :
    /\ pc[p] = "done" /\ ~loc[p].failed /\ loc[p].saved
    /\ loc[p].startedAt = ClockAt(D + 6, 86399)
    /\ OpenActivity(ParseDate(D))
    /\ ParseDate(D) \notin LockedDays(loc[p].doc)
    /\ ParseDate(D) \in LockedDays(user)

\* C34 as stated (permanent manual lock): a day that POST /lock-account
\* pushed while it had no record, or a record with all counters 0, is in
\* lockedDates in every later state.
C34_Original == pinned \subseteq LockedDays(user)

\* C34 as amended: such a day is in lockedDates as long as it has no record
\* or a record with no counter above 0 and both deposit fields null.
C34_PermanentManualLock ==
  \A d \in pinned :
    (~HasRecord(d) \/ (/\ ~hasActivity(stats[d])
                       /\ stats[d].depositCount = Null
                       /\ stats[d].depositAmount = Null))
      => d \in LockedDays(user)

\* A pass has ended without a store error, a week and more after the day
\* was pushed by /lock-account, and the day, whose record has all counters
\* 0 and no deposit, is still locked.
C34_Witness ==
  \E d \in pinned :
    /\ HasRecord(d) /\ AllZero(stats[d]) /\ stats[d].depositCount = Null
    /\ pc[1] = "done" /\ ~loc[1].failed
    /\ d \in LockedDays(loc[1].doc)
    /\ OutOfWindow(1, d)
    /\ d \in LockedDays(user)

\* The statuses PUT /update-deposit rejects a request with.
Rejections == {400, 403, 404}

\* C35: a PUT /update-deposit request that is rejected leaves the record and
\* lastDepositUpdateAt as they were, and each of the listed cases is
\* rejected: a missing field, a depositCount that is not a non-negative
\* integer, a negative depositAmount, an unknown user, an HWID that differs
\* from the bound one, no record for the day, no activity on the day, a
\* deposit already recorded.  Only a request past all these checks writes,
\* and it is never rejected afterwards; the request answered 200 has set both
\* deposit fields of the day's record to the body's values and
\* lastDepositUpdateAt to the instant the record was saved.
C35_RejectedChangesNothing ==
  [][LET r == reqs.put
         q == reqs'.put
         day == ParseDate(r.body.date[1])
     IN /\ (q # r /\ q.status \in Rejections)
             => stats' = stats /\ profile' = profile
        /\ (q # r /\ r.pc \notin {"save", "user_save"})
             => stats' = stats /\ profile' = profile
        /\ r.pc \in {"save", "user_save"} => q.status \notin Rejections
        /\ (r.pc = "idle" /\ q.pc # "idle")
             => ((\/ q.body.username = Null \/ q.body.date = Null
                  \/ q.body.depositCount = Undefined
                  \/ q.body.depositAmount = Undefined
                  \/ (q.body.clientType = "LineAPIBot" /\ q.body.hwid = NoHwid)
                  \/ ~IsNumber(q.body.depositCount)
                  \/ q.body.depositCount[1] < 0
                  \/ q.body.depositAmount[1] < 0)
                 <=> q.status = 400)
        /\ (r.pc = "user" /\ q # r /\ q.status # 500)
             => /\ (r.body.username # Some(acct)) <=> q.status = 404
                /\ (/\ r.body.username = Some(acct)
                    /\ r.body.clientType = "LineAPIBot"
                    /\ profile.hwid \notin {NoHwid, r.body.hwid}) <=> q.status = 403
        /\ (r.pc = "stats" /\ q # r /\ q.status # 500)
             => ((\/ ~HasRecord(day)
                  \/ ~hasActivity(stats[day])
                  \/ stats[day].depositCount # Null
                  \/ stats[day].depositAmount # Null) <=> q.status = 400)
        /\ (q.status = 200 /\ r.status = 0)
             => /\ stats'[day].depositCount = r.body.depositCount
                /\ stats'[day].depositAmount = r.body.depositAmount
                /\ profile'.lastDepositUpdateAt = r.stamp
                /\ r.stamp # Null
                /\ r.stamp[1] <= clock
   ]_vars

\* A request for a day whose deposit an earlier request recorded has been
\* rejected.
C35_Witness ==
  /\ reqs.put.pc = "done" /\ reqs.put.status = 400
  /\ PutStatusOfBody(reqs.put.body) = 0
  /\ reqs.put.body.username = Some(acct)
  /\ FullDeposit(ParseDate(0))
  /\ profile.lastDepositUpdateAt # Null

\* C36: the answer of GET /check-lock for a date never has isLocked = true
\* when the day's record carries a full deposit entry, and it has
\* isLocked = true exactly when the day is in the persisted lockedDates, as
\* they are after the reconciliation the request ran, and the day's record
\* carries no full deposit entry.
C36_DayAnswer ==
  (chk.pc = "done" /\ chk.status = 200 /\ chk.date # Null)
    => LET checkDate == ParseDate(chk.date[1])
           full == HasRecord(checkDate) /\ DepositEntered(stats[checkDate])
       IN /\ chk.body.isLocked => ~full
          /\ chk.body.isLocked <=> (checkDate \in LockedDays(user) /\ ~full)

\* A request for a date was answered with isLocked = true.
C36_Witness ==
  /\ chk.pc = "done" /\ chk.status = 200 /\ chk.date # Null
  /\ chk.body.isLocked
  /\ ParseDate(chk.date[1]) \in LockedDays(user)

\* C37: when POST /lock-account has been answered 200 for a date and the
\* next request, with no pass between the two, is for the same date, the
\* second request performs no save and lockedDates is what the first left.
C37_LockIdempotent ==
  (/\ lockReq.pc = "idle" /\ \A p \in Procs : pc[p] = "idle"
   /\ reqs.lock.date # Null /\ reqs.lock.prior = reqs.lock.date)
    => /\ ~reqs.lock.saved
       /\ user.lockedDates = reqs.lock.list

\* The second of two requests for one date has been answered while another
\* day is locked too.
C37_Witness ==
  /\ lockReq.pc = "idle" /\ \A p \in Procs : pc[p] = "idle"
  /\ reqs.lock.date # Null /\ reqs.lock.prior = reqs.lock.date
  /\ Len(user.lockedDates) = 2
  /\ reqs.lock.date[1] = user.lockedDates[2]

\* C38: a heartbeat that arrives less than 90 seconds after the previous
\* one, while onlineSince is set in the document it read, stores
\* heartbeatCount one above the count it read and leaves onlineSince as it
\* is; every other heartbeat stores heartbeatCount = 1 and onlineSince = the
\* instant it arrived; both store that instant in lastHeartbeatAt.
C38_SessionCounting ==
  [][(reqs.beat.pc = "update" /\ reqs'.beat.status = 200)
       => LET u == reqs.beat.user
              now == reqs.beat.now
          IN /\ profile'.lastHeartbeatAt = Some(now)
             /\ IF /\ u.lastHeartbeatAt # Null
                   /\ now - u.lastHeartbeatAt[1] < 90
                   /\ u.onlineSince # Null
                  THEN /\ profile'.heartbeatCount = u.heartbeatCount + 1
                       /\ profile'.onlineSince = profile.onlineSince
                  ELSE /\ profile'.heartbeatCount = 1
                       /\ profile'.onlineSince = Some(now)
    ]_vars

\* A heartbeat 90 seconds after the one before it has started a new session
\* after a session of two heartbeats.
C38_Witness ==
  /\ reqs.beat.pc = "done" /\ reqs.beat.status = 200
  /\ reqs.beat.user.heartbeatCount = 2
  /\ reqs.beat.user.onlineSince # Null
  /\ reqs.beat.now - reqs.beat.user.lastHeartbeatAt[1] = 90
  /\ profile.heartbeatCount = 1
  /\ profile.onlineSince = Some(reqs.beat.now)

\* The steps of the logins: a login that finds the account bound to an hwid
\* and carries the right password is answered 403 when its hwid differs and
\* 400 when it has none, and a step answering a login with 400, 401 or 403
\* leaves the account as it is.
LoginRejections ==
  \A r \in 1..NumLoginRequests :
    LET l == reqs.login[r]
        m == reqs'.login[r]
    IN /\ (/\ l.pc = "compare" /\ m # l /\ m.status # 500
           /\ l.body.password = "good" /\ l.foundUser.hwid # NoHwid)
            => /\ l.body.hwid = NoHwid => m.status = 400
               /\ l.body.hwid \notin {NoHwid, l.foundUser.hwid} => m.status = 403
       /\ (m # l /\ m.status \in {400, 401, 403}) => profile' = profile
       /\ l.pc = "save" => m.status \notin {400, 401, 403}

\* C39 (HWID binding): once the account's hwid is set, a login with the
\* right password and a different hwid is answered 403 and one without hwid
\* 400; the stored hwid, once set, changes only in the save of
\* POST /users/:id/reset-hwid; rejected logins leave lastLoginAt and
\* lastLoginIP unchanged.
C39_HwidBinding ==
  [][/\ LoginRejections
     /\ (profile.hwid # NoHwid /\ profile'.hwid # profile.hwid)
          => (reqs.reset.pc = "save" /\ reqs'.reset.status = 200)
    ]_vars

\* The same, where the stored hwid may also be replaced by the save of a
\* login that had read the account before any hwid was stored.
C39_BindingButOverlap ==
  [][/\ LoginRejections
     /\ (profile.hwid # NoHwid /\ profile'.hwid # profile.hwid)
          => \/ reqs.reset.pc = "save" /\ reqs'.reset.status = 200
             \/ \E r \in 1..NumLoginRequests :
                  /\ reqs.login[r].pc = "save" /\ reqs'.login[r].status = 200
                  /\ reqs.login[r].hwidModified
    ]_vars

====
